---- MODULE Spec2Model ----
(***************************************************************************)
(* Model of the content-validation pipeline of src/app.py:                 *)
(* validate_content (pre-screening, payload construction, the parallel     *)
(* validator/adversarial batch futures, merging and the summary) and       *)
(* generate_overall_assessment; and of the image pipeline:                 *)
(* search_and_validate_image with the image cache, get_cache_key,          *)
(* collect_candidate_images; and of _extract_json_array.                   *)
(*                                                                         *)
(* Encodings.  Item positions are 1-based here (the code's index i is the  *)
(* model's i - 1, so the report's "index" field i + 1 is the model's i);   *)
(* slot and block offsets (b_start, b_end, block ranges) keep the code's   *)
(* 0-based values.  quality_score and avg_quality_score are kept in        *)
(* hundredths (8.5 is 850).  A Python value that can sit in a result slot  *)
(* (None, a str, a dict) is one record whose field t gives the type and    *)
(* whose field keys gives the keys the dict holds.  Scores in a verdict    *)
(* are integers, as the prompts ask.  Status strings drop the emoji the    *)
(* code puts in front of them.  Whether a question's text matches          *)
(* _IMAGE_REF_RE is a flag of the item (question_ref).                     *)
(***************************************************************************)
EXTENDS Integers, Sequences, FiniteSets, Bags, TLC

VARIABLES
    \* ---- validate_content (one review request) ----
    content_type,          \* data.get('content_type')
    items,                 \* data.get('items', [])
    pc,                    \* position of the handler
    pre_scored,            \* original index -> structural-failure result
    valid_indices,         \* indices sent to the models
    content_payload,       \* the content blocks of all valid items
    section_block_ranges,  \* (start_block, end_block) per valid item
    batch_specs,           \* (b_start, b_end, batch_count, batch_payload)
    futures,               \* per batch and role: the future's outcome
    llm_calls,             \* bag of the client.messages.create calls made
    v_slots,               \* validator result slots
    a_slots,               \* adversarial result slots
    response,              \* what the handler returned
    out_of_order,          \* history: a future completed before one submitted earlier
    \* ---- generate_overall_assessment called on its own ----
    validator_result,
    adversarial_result,
    assessment,
    \* ---- search_and_validate_image (successive resolutions) ----
    image_cache,           \* image_cache.json: cache key -> image descriptor
    gemini_client,         \* whether the image generator is configured
    img_pc,                \* position of the running resolution
    question_data,         \* the argument of the running resolution
    candidates,            \* what collect_candidate_images returned
    scored_candidates,     \* the candidates with their scores
    result,                \* what the resolution returned
    events,                \* history: external calls and cache accesses, in order
    cache_before,          \* history: image_cache when the resolution started
    previous,              \* history: argument and result of the resolution before
    call_count,            \* resolutions started so far
    \* ---- get_cache_key on a term list and a permutation of it ----
    search_terms,
    permuted_terms,
    image_type,
    cache_keys,            \* the two keys, once computed
    \* ---- collect_candidate_images (one call) ----
    image_search_terms,    \* the queries
    max_candidates,
    col_pc,                \* the source being queried, or "returned" / "raised"
    col_idx,               \* queries of that source already made
    col_candidates,        \* the local list candidates, then the return value
    col_log,               \* history: every query with its outcome
    \* ---- _extract_json_array (one call) ----
    raw_text,              \* the argument text
    extract_pc,
    extracted,
    \* ---- validate_image_with_claude (one call) ----
    val_download,          \* what requests.get does
    val_reply,             \* what the vision call does
    val_pc,
    vision_called,         \* history: client.messages.create was called
    validation,            \* the return value
    \* ---- integrate_images_into_lesson (one call, its workers, the cache file) ----
    lesson_content,        \* the text, as its segments
    lesson_figures,        \* the searchable figures (the local list candidates)
    lesson_pc,
    workers,               \* per figure: the state of its _fetch_image future
    fig_next,              \* futures already collected by the loop
    cache_file,            \* image_cache.json
    original_content,      \* history: lesson_content as it was passed
    cache_at_start         \* history: image_cache.json when the call started

reviewVars == <<content_type, items, pc, pre_scored, valid_indices, content_payload,
                section_block_ranges, batch_specs, futures, llm_calls, v_slots,
                a_slots, response, out_of_order>>
assessVars == <<validator_result, adversarial_result, assessment>>
imageVars == <<image_cache, gemini_client, img_pc, question_data, candidates,
               scored_candidates, result, events, cache_before, previous, call_count>>
keyVars == <<search_terms, permuted_terms, image_type, cache_keys>>
collectVars == <<image_search_terms, max_candidates, col_pc, col_idx, col_candidates,
                 col_log>>
extractVars == <<raw_text, extract_pc, extracted>>
validateVars == <<val_download, val_reply, val_pc, vision_called, validation>>
lessonVars == <<lesson_content, lesson_figures, lesson_pc, workers, fig_next, cache_file,
                original_content, cache_at_start>>
vars == <<reviewVars, assessVars, imageVars, keyVars, collectVars, extractVars,
          validateVars, lessonVars>>

(***************************************************************************)
(* Bounds of the model.                                                    *)
(***************************************************************************)
\* most lesson sections in one request
MaxLessons == 3
\* most questions in one request
MaxQuestions == 2
\* verdict scores run over 0..MaxScore
MaxScore == 10

Min(x, y) == IF x <= y THEN x ELSE y

Take(s, n) == SubSeq(s, 1, Min(n, Len(s)))

(***************************************************************************)
(* Python values held in result slots and verdict fields.                  *)
(***************************************************************************)
EmptyDict ==
    [t |-> "dict", keys |-> {}, question_number |-> 0,
     overall_accuracy_score |-> 0, needs_revision |-> FALSE,
     adversarial_score |-> 0, breakability_rating |-> ""]

None == [EmptyDict EXCEPT !.t = "none"]

NonDict == [EmptyDict EXCEPT !.t = "str"]

isinstance_dict(r) == r.t = "dict"

\* Python truthiness: None and the empty dict are falsy, a non-empty str is truthy.
Truthy(r) == r.t = "str" \/ (r.t = "dict" /\ r.keys # {})

\* `r or {}`
OrEmpty(r) == IF Truthy(r) THEN r ELSE EmptyDict

ValidatorVerdict(number, score, revise) ==
    [EmptyDict EXCEPT
        !.keys = {"question_number", "overall_accuracy_score", "needs_revision"},
        !.question_number = number,
        !.overall_accuracy_score = score,
        !.needs_revision = revise]

AdversarialVerdict(number, score, rating) ==
    [EmptyDict EXCEPT
        !.keys = {"question_number", "adversarial_score", "breakability_rating"},
        !.question_number = number,
        !.adversarial_score = score,
        !.breakability_rating = rating]

(***************************************************************************)
(* round(x, 2) of the rational num / den (den > 0, num >= 0), in           *)
(* hundredths: nearest, ties to even.                                      *)
(***************************************************************************)
Round2(num, den) ==
    LET scaled == 100 * num
        q == scaled \div den
        r == scaled % den
    IN  IF 2 * r < den THEN q
        ELSE IF 2 * r > den THEN q + 1
        ELSE IF q % 2 = 0 THEN q ELSE q + 1

(***************************************************************************)
(* generate_overall_assessment(validator_result, adversarial_result, _)    *)
(***************************************************************************)
StatusApproved == "Approved"
StatusConditional == "Conditional"
StatusNeedsRevision == "Needs Revision"
StatusStructuralFailure == "Structural Failure"

NoAssessment ==
    [status |-> "", quality_score |-> 0, validator_score |-> 0,
     adversarial_score |-> 0, needs_revision |-> FALSE, recommendation |-> ""]

\* validator_result.get('needs_revision', True): a mutant of NeedsRevisionOf
NeedsRevisionDefaultTrue(v) ==
    IF "needs_revision" \in v.keys THEN v.needs_revision ELSE TRUE

\* validator_result.get('needs_revision', False)
NeedsRevisionOf(v) ==
    IF "needs_revision" \in v.keys THEN v.needs_revision ELSE FALSE

\* (validator_score + (10 - adversarial_score)) // 2: a mutant of QualityScore
QualityScoreFloorDiv(validator_score, adversarial_score) ==
    Round2((validator_score + (10 - adversarial_score)) \div 2, 1)

\* the adversarial score added instead of inverted: a mutant of QualityScore
QualityScoreNotInverted(validator_score, adversarial_score) ==
    Round2(validator_score + adversarial_score, 2)

\* round((validator_score + (10 - adversarial_score)) / 2, 2)
QualityScore(validator_score, adversarial_score) ==
    Round2(validator_score + (10 - adversarial_score), 2)

\* `quality_score > 8` for `quality_score >= 8`: a mutant of StatusOf
StatusOfStrict(validator_score, adversarial_score, needs_revision) ==
    LET twice == validator_score + (10 - adversarial_score)
    IN  IF twice > 2 * 8 /\ ~needs_revision THEN StatusApproved
        ELSE IF twice >= 2 * 6 THEN StatusConditional
        ELSE StatusNeedsRevision

\* the if / elif / else on quality_score = twice / 2 (before rounding)
StatusOf(validator_score, adversarial_score, needs_revision) ==
    LET twice == validator_score + (10 - adversarial_score)
    IN  IF twice >= 2 * 8 /\ ~needs_revision THEN StatusApproved
        ELSE IF twice >= 2 * 6 THEN StatusConditional
        ELSE StatusNeedsRevision

generate_overall_assessment(v, a) ==
    LET validator_score ==
            IF "overall_accuracy_score" \in v.keys THEN v.overall_accuracy_score ELSE 0
        adversarial_score ==
            IF "adversarial_score" \in a.keys THEN a.adversarial_score ELSE 0
        needs_revision == NeedsRevisionOf(v)
        status == StatusOf(validator_score, adversarial_score, needs_revision)
        recommendation ==
            IF status = StatusApproved THEN "high quality, safe to use"
            ELSE IF status = StatusConditional THEN "minor issues, consider revisions"
            ELSE "significant issues, requires revision"
    IN  [status |-> status,
         quality_score |-> QualityScore(validator_score, adversarial_score),
         validator_score |-> validator_score,
         adversarial_score |-> adversarial_score,
         needs_revision |-> needs_revision,
         recommendation |-> recommendation]

(***************************************************************************)
(* Image handles and the environment they resolve against.                 *)
(***************************************************************************)
NoUrl == ""
RemoteUrl == "http://host/ok.png"          \* remote, download answers 200
RemoteDeadUrl == "http://host/gone.png"    \* remote, download fails
LocalUrl == "/static/ok.png"               \* local file that exists
LocalMissingUrl == "/static/missing.png"   \* local path with no file

startswith_http(image_url) == image_url \in {RemoteUrl, RemoteDeadUrl}

\* os.path.isfile(image_url.lstrip('/'))
isfile(image_url) == image_url = LocalUrl

\* availability with a download tried for a remote handle: a mutant of
\* _image_available
ImageAvailableChecked(image_url) ==
    IF image_url = NoUrl THEN FALSE
    ELSE IF startswith_http(image_url) THEN image_url = RemoteUrl
    ELSE isfile(image_url)

_image_available(image_url) ==
    IF image_url = NoUrl THEN FALSE
    ELSE IF startswith_http(image_url) THEN TRUE
    ELSE isfile(image_url)

\* _load_image_as_base64(image_url) returns data (TRUE) or (None, None) (FALSE)
_load_image_as_base64(image_url) ==
    IF startswith_http(image_url) THEN image_url = RemoteUrl
    ELSE isfile(image_url)

(***************************************************************************)
(* Content items.  question_ref: _IMAGE_REF_RE.search(question) matches;   *)
(* image_url: q.get('image_url', ''); embedded: the image embedded in a    *)
(* lesson body ("" when the body has none).                                *)
(***************************************************************************)
Question(question_ref, image_url) ==
    [question_ref |-> question_ref, image_url |-> image_url, embedded |-> NoUrl]

Lesson(embedded) ==
    [question_ref |-> FALSE, image_url |-> NoUrl, embedded |-> embedded]

Questions ==
    {Question(m, u) : m \in BOOLEAN,
                      u \in {NoUrl, RemoteUrl, RemoteDeadUrl, LocalUrl, LocalMissingUrl}}

Lessons == {Lesson(u) : u \in {NoUrl, LocalUrl}}

SeqsUpTo(S, n) == UNION {[1..k -> S] : k \in 0..n}

Requests ==
    {[content_type |-> "qbank", items |-> s] : s \in SeqsUpTo(Questions, MaxQuestions)}
    \cup {[content_type |-> "lesson", items |-> s] : s \in SeqsUpTo(Lessons, MaxLessons)}
    \cup {[content_type |-> "other", items |-> <<Lesson(NoUrl)>>]}

(***************************************************************************)
(* _make_structural_failure(index, question_text, reason)                  *)
(***************************************************************************)
ReasonUnavailable == "Image file referenced in question is missing or unavailable"
ReasonNotAttached == "Question references an image but no image is attached"
RatingSkipped == "N/A - structural failure, adversarial review skipped"

\* "adversarial": None for the skipped review: a mutant of _make_structural_failure
StructuralFailureNullAdversarial(index, reason) ==
    [index |-> index,
     structural_failure |-> TRUE,
     validator |-> ValidatorVerdict(index, 2, TRUE),
     adversarial |-> None,
     overall_assessment |->
        [status |-> StatusStructuralFailure,
         quality_score |-> 100,
         validator_score |-> 2,
         adversarial_score |-> 0,
         needs_revision |-> TRUE,
         recommendation |-> reason]]

\* a stand-in that leaves needs_revision false: a mutant of _make_structural_failure
StructuralFailureNotRevised(index, reason) ==
    [index |-> index,
     structural_failure |-> TRUE,
     validator |-> ValidatorVerdict(index, 2, FALSE),
     adversarial |-> AdversarialVerdict(index, 0, RatingSkipped),
     overall_assessment |->
        [status |-> StatusStructuralFailure,
         quality_score |-> 100,
         validator_score |-> 2,
         adversarial_score |-> 0,
         needs_revision |-> FALSE,
         recommendation |-> reason]]

_make_structural_failure(index, reason) ==
    [index |-> index,
     structural_failure |-> TRUE,
     validator |-> ValidatorVerdict(index, 2, TRUE),
     adversarial |-> AdversarialVerdict(index, 0, RatingSkipped),
     overall_assessment |->
        [status |-> StatusStructuralFailure,
         quality_score |-> 100,
         validator_score |-> 2,
         adversarial_score |-> 0,
         needs_revision |-> TRUE,
         recommendation |-> reason]]

(***************************************************************************)
(* Pre-screening of validate_content.                                      *)
(***************************************************************************)
needs_image(q) == q.image_url # NoUrl \/ q.question_ref

\* pre-screening without the `elif needs_image and not image_url` branch:
\* a mutant of PreScreenReason
PreScreenReasonUrlOnly(ct, q) ==
    IF ct # "qbank" THEN ""
    ELSE IF needs_image(q) /\ q.image_url # NoUrl /\ ~_image_available(q.image_url)
        THEN ReasonUnavailable
    ELSE ""

\* "" when the item is sent to the models, else the reason it is pre-scored
PreScreenReason(ct, q) ==
    IF ct # "qbank" THEN ""
    ELSE IF needs_image(q) /\ q.image_url # NoUrl /\ ~_image_available(q.image_url)
        THEN ReasonUnavailable
    ELSE IF needs_image(q) /\ q.image_url = NoUrl
        THEN ReasonNotAttached
    ELSE ""

PreScored(ct, its) ==
    [i \in {k \in 1..Len(its) : PreScreenReason(ct, its[k]) # ""} |->
        _make_structural_failure(i, PreScreenReason(ct, its[i]))]

ValidIndices(ct, its) ==
    SelectSeq([k \in 1..Len(its) |-> k], LAMBDA k : PreScreenReason(ct, its[k]) = "")

(***************************************************************************)
(* Content blocks of one valid item; `item` is its original index.         *)
(***************************************************************************)
TextBlock(item, text) == [type |-> "text", item |-> item, text |-> text]
ImageBlock(item) == [type |-> "image", item |-> item, text |-> ""]

LessonBlocks(lesson, item) ==
    <<TextBlock(item, "SECTION")>> \o
    (IF lesson.embedded = NoUrl THEN <<>>
     ELSE IF ~_image_available(lesson.embedded)
        THEN <<TextBlock(item, "IMAGE MISSING")>>
     ELSE IF _load_image_as_base64(lesson.embedded)
        THEN <<TextBlock(item, "IMAGE"), ImageBlock(item)>>
     ELSE <<TextBlock(item, "IMAGE LOAD FAILED")>>)

QuestionBlocks(q, item) ==
    LET has_image == q.image_url # NoUrl /\ _image_available(q.image_url)
    IN  <<TextBlock(item, IF has_image THEN "Q + IMAGE MARKER" ELSE "Q")>> \o
        (IF ~has_image THEN <<>>
         ELSE IF _load_image_as_base64(q.image_url) THEN <<ImageBlock(item)>>
         ELSE <<TextBlock(item, "IMAGE LOAD FAILED")>>)

\* The loop over enumerate(valid_items): blocks and section_block_ranges so far.
RECURSIVE BuildBlocks(_, _, _, _, _, _)
BuildBlocks(ct, its, valid, pos, blocks, ranges) ==
    IF pos > Len(valid) THEN [blocks |-> blocks, ranges |-> ranges]
    ELSE LET item == valid[pos]
             mine == IF ct = "lesson" THEN LessonBlocks(its[item], item)
                     ELSE QuestionBlocks(its[item], item)
             after == blocks \o mine
         IN  BuildBlocks(ct, its, valid, pos + 1, after,
                         Append(ranges, <<Len(blocks), Len(after)>>))

(***************************************************************************)
(* Batches.                                                                *)
(***************************************************************************)
BATCH_SIZE(ct) == IF ct = "lesson" THEN 2 ELSE 10

\* content_payload[first:last]
Slice(s, first, last) == SubSeq(s, first + 1, Min(last, Len(s)))

BatchSpecs(ct, n_valid, ranges, payload) ==
    [n \in 1..((n_valid + BATCH_SIZE(ct) - 1) \div BATCH_SIZE(ct)) |->
        LET b_start == (n - 1) * BATCH_SIZE(ct)
            b_end == Min(b_start + BATCH_SIZE(ct), n_valid)
            first_block == ranges[b_start + 1][1]
            last_block == ranges[b_end][2]
        IN  [b_start |-> b_start,
             b_end |-> b_end,
             batch_count |-> b_end - b_start,
             payload |-> Slice(payload, first_block, last_block)]]

(***************************************************************************)
(* What one batch call can come to: _call_agent raises (an API error, a    *)
(* timeout, an empty content list), or _extract_json_array returns a list  *)
(* (empty when the text holds no JSON) of `k` elements.  The elements are  *)
(* numbered as the prompts ask (question_number / section_number 1..k).    *)
(***************************************************************************)
Roles == {"validator", "adversarial"}

Element(role, profile, j) ==
    IF profile = "junk" /\ j = 1 THEN NonDict
    ELSE IF role = "validator" THEN
        IF profile = "mixed" /\ j % 2 = 1 THEN ValidatorVerdict(j, 5, TRUE)
        ELSE ValidatorVerdict(j, 9, FALSE)
    ELSE
        IF profile = "mixed" /\ j % 2 = 1 THEN AdversarialVerdict(j, 5, "moderate flaws")
        ELSE AdversarialVerdict(j, 1, "airtight")

Extracted(role, profile, k) == [j \in 1..k |-> Element(role, profile, j)]

CallOutcomes(role, batch_count) ==
    {[raised |-> TRUE, extracted |-> <<>>]}
    \cup {[raised |-> FALSE, extracted |-> Extracted(role, "good", k)] :
            k \in 0..(batch_count + 1)}
    \cup {[raised |-> FALSE, extracted |-> Extracted(role, p, batch_count)] :
            p \in {"mixed", "junk"}}

Pending == [state |-> "pending", extracted |-> <<>>, results |-> <<>>]

\* the extracted list kept whole, without [:batch_count]: a mutant of _run_batch
RunBatchUnsliced(batch_count, call) ==
    IF call.raised THEN [state |-> "raised", extracted |-> <<>>, results |-> <<>>]
    ELSE [state |-> "returned", extracted |-> call.extracted, results |-> call.extracted]

\* _run_validator_batch / _run_adversarial_batch: what the future holds
_run_batch(batch_count, call) ==
    IF call.raised THEN [state |-> "raised", extracted |-> <<>>, results |-> <<>>]
    ELSE [state |-> "returned",
          extracted |-> call.extracted,
          results |-> Take(call.extracted, batch_count)]

\* slots[j] for slots[b_start + j]: a mutant of WriteSlots
WriteSlotsNoOffset(slots, b_start, results) ==
    [p \in 1..Len(slots) |->
        LET j == p - 1
        IN  IF j < Len(results)
            THEN IF isinstance_dict(results[j + 1]) THEN results[j + 1] ELSE EmptyDict
            ELSE slots[p]]

\* for j, r in enumerate(results): if b_start + j < len(slots): slots[b_start + j] = ...
WriteSlots(slots, b_start, results) ==
    [p \in 1..Len(slots) |->
        LET j == (p - 1) - b_start
        IN  IF j >= 0 /\ j < Len(results)
            THEN IF isinstance_dict(results[j + 1]) THEN results[j + 1] ELSE EmptyDict
            ELSE slots[p]]

\* [r or {} for r in slots]
SlotResults(slots) == [p \in 1..Len(slots) |-> OrEmpty(slots[p])]

(***************************************************************************)
(* Merging in original order, and the summary.                             *)
(***************************************************************************)
MergedItem(index, v, a) ==
    LET vd == IF isinstance_dict(v) THEN v ELSE EmptyDict
        ad == IF isinstance_dict(a) THEN a ELSE EmptyDict
    IN  [index |-> index,
         structural_failure |-> FALSE,
         validator |-> vd,
         adversarial |-> ad,
         overall_assessment |-> generate_overall_assessment(vd, ad)]

RECURSIVE MergeItems(_, _, _, _, _, _, _)
MergeItems(n_items, scored, validator_results, adversarial_results, i, valid_pos, merged) ==
    IF i > n_items THEN merged
    ELSE IF i \in DOMAIN scored
        THEN MergeItems(n_items, scored, validator_results, adversarial_results,
                        i + 1, valid_pos, Append(merged, scored[i]))
    ELSE LET v == IF valid_pos < Len(validator_results)
                  THEN validator_results[valid_pos + 1] ELSE EmptyDict
             a == IF valid_pos < Len(adversarial_results)
                  THEN adversarial_results[valid_pos + 1] ELSE EmptyDict
         IN  MergeItems(n_items, scored, validator_results, adversarial_results,
                        i + 1, valid_pos + 1, Append(merged, MergedItem(i, v, a)))

RECURSIVE SumQuality(_, _)
SumQuality(merged, n) ==
    IF n = 0 THEN 0 ELSE merged[n].overall_assessment.quality_score + SumQuality(merged, n - 1)

NoSummary ==
    [total |-> 0, approved |-> 0, needs_revision |-> 0, structural_failures |-> 0,
     avg_quality_score |-> 0]

Summary(merged) ==
    LET total == Len(merged)
        needs_revision_count ==
            Cardinality({i \in 1..total : merged[i].overall_assessment.needs_revision})
        structural_count ==
            Cardinality({i \in 1..total : merged[i].structural_failure})
    IN  [total |-> total,
         approved |-> total - needs_revision_count,
         needs_revision |-> needs_revision_count,
         structural_failures |-> structural_count,
         avg_quality_score |->
            IF total > 0 THEN Round2(SumQuality(merged, total), 100 * total) ELSE 0]

NoResponse == [kind |-> "none", status_code |-> 0, items |-> <<>>, summary |-> NoSummary]

ErrorResponse(code) ==
    [kind |-> "error", status_code |-> code, items |-> <<>>, summary |-> NoSummary]

Report(merged) ==
    [kind |-> "report", status_code |-> 200, items |-> merged, summary |-> Summary(merged)]

(***************************************************************************)
(* validate_content, step by step.                                         *)
(***************************************************************************)
\* `if not items` and the pre-screen loop
PreScreen ==
    /\ pc = "start"
    /\ IF Len(items) = 0
       THEN /\ response' = ErrorResponse(400)
            /\ pc' = "done"
            /\ UNCHANGED <<pre_scored, valid_indices>>
       ELSE /\ pre_scored' = PreScored(content_type, items)
            /\ valid_indices' = ValidIndices(content_type, items)
            /\ pc' = "prescreened"
            /\ UNCHANGED response
    /\ UNCHANGED <<content_type, items, content_payload, section_block_ranges,
                   batch_specs, futures, llm_calls, v_slots, a_slots, out_of_order>>
    /\ UNCHANGED <<assessVars, imageVars, keyVars, collectVars, extractVars,
                   validateVars, lessonVars>>

\* the content blocks of the valid items, or the 400 for an unknown content_type
BuildPayload ==
    /\ pc = "prescreened"
    /\ IF content_type \in {"lesson", "qbank"}
       THEN LET built == BuildBlocks(content_type, items, valid_indices, 1, <<>>, <<>>)
            IN  /\ content_payload' = built.blocks
                /\ section_block_ranges' = built.ranges
                /\ pc' = "built"
                /\ UNCHANGED response
       ELSE /\ response' = ErrorResponse(400)
            /\ pc' = "done"
            /\ UNCHANGED <<content_payload, section_block_ranges>>
    /\ UNCHANGED <<content_type, items, pre_scored, valid_indices, batch_specs,
                   futures, llm_calls, v_slots, a_slots, out_of_order>>
    /\ UNCHANGED <<assessVars, imageVars, keyVars, collectVars, extractVars,
                   validateVars, lessonVars>>

\* batch specs, the result slots and the submission of both futures of every batch
SubmitBatches ==
    /\ pc = "built"
    /\ LET specs == BatchSpecs(content_type, Len(valid_indices),
                               section_block_ranges, content_payload)
       IN  /\ batch_specs' = specs
           /\ futures' = [n \in 1..Len(specs) |->
                            [validator |-> Pending, adversarial |-> Pending]]
    /\ v_slots' = [p \in 1..Len(valid_indices) |-> None]
    /\ a_slots' = [p \in 1..Len(valid_indices) |-> None]
    /\ pc' = "running"
    /\ UNCHANGED <<content_type, items, pre_scored, valid_indices, content_payload,
                   section_block_ranges, llm_calls, response, out_of_order>>
    /\ UNCHANGED <<assessVars, imageVars, keyVars, collectVars, extractVars,
                   validateVars, lessonVars>>

\* futures are submitted batch by batch, the validator before the adversarial
SubmittedEarlierPending(n, role) ==
    \/ \E m \in 1..(n - 1) : \E r \in Roles : futures[m][r].state = "pending"
    \/ role = "adversarial" /\ futures[n]["validator"].state = "pending"

\* The loop over as_completed without its try / except, so that a call that raised
\* ends the request in the handler's outer except: a mutant of FutureCompleted
FutureCompletedUncaught(n, role) ==
    /\ pc = "running"
    /\ futures[n][role].state = "pending"
    /\ \E call \in CallOutcomes(role, batch_specs[n].batch_count) :
        LET done == _run_batch(batch_specs[n].batch_count, call)
        IN  /\ futures' = [futures EXCEPT ![n][role] = done]
            /\ IF done.state = "returned" /\ role = "validator"
               THEN v_slots' = WriteSlots(v_slots, batch_specs[n].b_start, done.results)
               ELSE UNCHANGED v_slots
            /\ IF done.state = "returned" /\ role = "adversarial"
               THEN a_slots' = WriteSlots(a_slots, batch_specs[n].b_start, done.results)
               ELSE UNCHANGED a_slots
            /\ IF done.state = "raised"
               THEN pc' = "done" /\ response' = ErrorResponse(500)
               ELSE UNCHANGED <<pc, response>>
    /\ llm_calls' = llm_calls (+) SetToBag({[role |-> role,
                                             b_start |-> batch_specs[n].b_start,
                                             payload |-> batch_specs[n].payload]})
    /\ out_of_order' = (out_of_order \/ SubmittedEarlierPending(n, role))
    /\ UNCHANGED <<content_type, items, pre_scored, valid_indices, content_payload,
                   section_block_ranges, batch_specs>>
    /\ UNCHANGED <<assessVars, imageVars, keyVars, collectVars, extractVars,
                   validateVars, lessonVars>>

\* The loop with a call that raised submitted again: a mutant of FutureCompleted
FutureCompletedRetried(n, role) ==
    /\ pc = "running"
    /\ futures[n][role].state = "pending"
    /\ \E call \in CallOutcomes(role, batch_specs[n].batch_count) :
        LET done == _run_batch(batch_specs[n].batch_count, call)
        IN  /\ futures' = IF done.state = "raised" THEN futures
                          ELSE [futures EXCEPT ![n][role] = done]
            /\ IF done.state = "returned" /\ role = "validator"
               THEN v_slots' = WriteSlots(v_slots, batch_specs[n].b_start, done.results)
               ELSE UNCHANGED v_slots
            /\ IF done.state = "returned" /\ role = "adversarial"
               THEN a_slots' = WriteSlots(a_slots, batch_specs[n].b_start, done.results)
               ELSE UNCHANGED a_slots
    /\ llm_calls' = llm_calls (+) SetToBag({[role |-> role,
                                             b_start |-> batch_specs[n].b_start,
                                             payload |-> batch_specs[n].payload]})
    /\ out_of_order' = (out_of_order \/ SubmittedEarlierPending(n, role))
    /\ UNCHANGED <<content_type, items, pc, pre_scored, valid_indices, content_payload,
                   section_block_ranges, batch_specs, response>>
    /\ UNCHANGED <<assessVars, imageVars, keyVars, collectVars, extractVars,
                   validateVars, lessonVars>>

\* One future runs its call and is the next one as_completed hands to the loop.
FutureCompleted(n, role) ==
    /\ pc = "running"
    /\ futures[n][role].state = "pending"
    /\ \E call \in CallOutcomes(role, batch_specs[n].batch_count) :
        LET done == _run_batch(batch_specs[n].batch_count, call)
        IN  /\ futures' = [futures EXCEPT ![n][role] = done]
            /\ IF done.state = "returned" /\ role = "validator"
               THEN v_slots' = WriteSlots(v_slots, batch_specs[n].b_start, done.results)
               ELSE UNCHANGED v_slots
            /\ IF done.state = "returned" /\ role = "adversarial"
               THEN a_slots' = WriteSlots(a_slots, batch_specs[n].b_start, done.results)
               ELSE UNCHANGED a_slots
    /\ llm_calls' = llm_calls (+) SetToBag({[role |-> role,
                                             b_start |-> batch_specs[n].b_start,
                                             payload |-> batch_specs[n].payload]})
    /\ out_of_order' = (out_of_order \/ SubmittedEarlierPending(n, role))
    /\ UNCHANGED <<content_type, items, pc, pre_scored, valid_indices, content_payload,
                   section_block_ranges, batch_specs, response>>
    /\ UNCHANGED <<assessVars, imageVars, keyVars, collectVars, extractVars,
                   validateVars, lessonVars>>

AllFuturesDone ==
    \A n \in 1..Len(futures) : \A role \in Roles : futures[n][role].state # "pending"

\* after the executor: the merge in original order, the summary and the report
MergeResults ==
    /\ pc = "running"
    /\ AllFuturesDone
    /\ response' = Report(MergeItems(Len(items), pre_scored, SlotResults(v_slots),
                                     SlotResults(a_slots), 1, 0, <<>>))
    /\ pc' = "done"
    /\ UNCHANGED <<content_type, items, pre_scored, valid_indices, content_payload,
                   section_block_ranges, batch_specs, futures, llm_calls, v_slots, a_slots,
                   out_of_order>>
    /\ UNCHANGED <<assessVars, imageVars, keyVars, collectVars, extractVars,
                   validateVars, lessonVars>>

(***************************************************************************)
(* The image pipeline, get_cache_key, collect_candidate_images and         *)
(* _extract_json_array have specifications of their own; this is the state *)
(* of each while it is not the one running.  An image descriptor is the    *)
(* dict {url, source, title}: url and title name the image they came from  *)
(* (candidate n, the generated image, or the marked copy of one of them),  *)
(* source is the source name and whether " (with markers)" was appended.   *)
(***************************************************************************)
NoImage ==
    [t |-> "none", url |-> [kind |-> "", n |-> 0],
     source |-> [name |-> "", with_markers |-> FALSE],
     title |-> [kind |-> "", n |-> 0]]

NoQuestionData ==
    [image_search_terms |-> <<>>, image_type |-> "", question |-> "",
     image_description |-> FALSE]

NoCall == [made |-> FALSE, question_data |-> NoQuestionData, result |-> NoImage]

EmptyCache == [k \in {} |-> NoImage]

ImageIdle ==
    /\ image_cache = EmptyCache
    /\ gemini_client = FALSE
    /\ img_pc = "idle"
    /\ question_data = NoQuestionData
    /\ candidates = <<>>
    /\ scored_candidates = <<>>
    /\ result = NoImage
    /\ events = <<>>
    /\ cache_before = EmptyCache
    /\ previous = NoCall
    /\ call_count = 0

KeyIdle ==
    /\ search_terms = <<>>
    /\ permuted_terms = <<>>
    /\ image_type = ""
    /\ cache_keys = <<>>

CollectIdle ==
    /\ image_search_terms = <<>>
    /\ max_candidates = 0
    /\ col_pc = "idle"
    /\ col_idx = 0
    /\ col_candidates = <<>>
    /\ col_log = <<>>

ExtractIdle ==
    /\ raw_text = <<>>
    /\ extract_pc = "idle"
    /\ extracted = <<>>

\* a Python value the scorer can return: a dict, with or without the keys
\* 'score' and 'reason', or another JSON value (a list)
PyValue(t, has_score, score, has_reason) ==
    [t |-> t, has_score |-> has_score, score |-> score, has_reason |-> has_reason]

NoValidation == PyValue("none", FALSE, 0, FALSE)

NoReply == [kind |-> "", value |-> NoValidation]

ValidateIdle ==
    /\ val_download = ""
    /\ val_reply = NoReply
    /\ val_pc = "idle"
    /\ vision_called = FALSE
    /\ validation = NoValidation

LessonIdle ==
    /\ lesson_content = <<>>
    /\ lesson_figures = <<>>
    /\ lesson_pc = "idle"
    /\ workers = <<>>
    /\ fig_next = 0
    /\ cache_file = EmptyCache
    /\ original_content = <<>>
    /\ cache_at_start = EmptyCache

AssessIdle ==
    /\ validator_result = None
    /\ adversarial_result = None
    /\ assessment = NoAssessment

Init ==
    /\ \E req \in Requests :
        /\ content_type = req.content_type
        /\ items = req.items
    /\ pc = "start"
    /\ pre_scored = <<>>
    /\ valid_indices = <<>>
    /\ content_payload = <<>>
    /\ section_block_ranges = <<>>
    /\ batch_specs = <<>>
    /\ futures = <<>>
    /\ llm_calls = EmptyBag
    /\ v_slots = <<>>
    /\ a_slots = <<>>
    /\ response = NoResponse
    /\ out_of_order = FALSE
    /\ AssessIdle
    /\ ImageIdle
    /\ KeyIdle
    /\ CollectIdle
    /\ ExtractIdle
    /\ ValidateIdle
    /\ LessonIdle

Next ==
    \/ PreScreen
    \/ BuildPayload
    \/ SubmitBatches
    \/ \E n \in DOMAIN futures : \E role \in Roles : FutureCompleted(n, role)
    \/ MergeResults

Spec == Init /\ [][Next]_vars

(***************************************************************************)
(* generate_overall_assessment on its own, over every pair of verdicts.    *)
(***************************************************************************)
ReviewIdle ==
    /\ content_type = ""
    /\ items = <<>>
    /\ pc = "idle"
    /\ pre_scored = <<>>
    /\ valid_indices = <<>>
    /\ content_payload = <<>>
    /\ section_block_ranges = <<>>
    /\ batch_specs = <<>>
    /\ futures = <<>>
    /\ llm_calls = EmptyBag
    /\ v_slots = <<>>
    /\ a_slots = <<>>
    /\ response = NoResponse
    /\ out_of_order = FALSE

InitAssess ==
    /\ ReviewIdle
    /\ validator_result \in
        {EmptyDict} \cup {ValidatorVerdict(1, s, r) : s \in 0..MaxScore, r \in BOOLEAN}
    /\ adversarial_result \in
        {EmptyDict} \cup {AdversarialVerdict(1, s, "airtight") : s \in 0..MaxScore}
    /\ assessment = NoAssessment
    /\ ImageIdle
    /\ KeyIdle
    /\ CollectIdle
    /\ ExtractIdle
    /\ ValidateIdle
    /\ LessonIdle

Assess ==
    /\ pc = "idle"
    /\ assessment = NoAssessment
    /\ assessment' = generate_overall_assessment(validator_result, adversarial_result)
    /\ UNCHANGED <<validator_result, adversarial_result>>
    /\ UNCHANGED <<reviewVars, imageVars, keyVars, collectVars, extractVars,
                   validateVars, lessonVars>>

NextAssess == Assess

SpecAssess == InitAssess /\ [][NextAssess]_vars

(***************************************************************************)
(* The image cache.  A search term is a number (terms compare as the       *)
(* strings they stand for); the md5 digest of the key string is modelled   *)
(* by the key string's parts, image type and joined terms, so that two     *)
(* keys are equal exactly when their key strings are.                      *)
(***************************************************************************)
\* most resolutions in one run
MaxCalls == 2
\* most candidates the search returns to a resolution
MaxCandidates == 2
\* the acceptance threshold of the best candidate's score
ACCEPT_SCORE == 80
\* terms that take part in the key: search_terms[:3]
KEY_TERMS == 3

\* s with x put after the elements that are not greater
Insert(x, s) ==
    LET k == Cardinality({i \in 1..Len(s) : s[i] <= x})
    IN  SubSeq(s, 1, k) \o <<x>> \o SubSeq(s, k + 1, Len(s))

RECURSIVE sorted(_)
sorted(s) ==
    IF s = <<>> THEN <<>> ELSE Insert(s[Len(s)], sorted(SubSeq(s, 1, Len(s) - 1)))

\* the key with the sort left out
CacheKeyUnsorted(terms, itype) ==
    [image_type |-> itype, terms |-> Take(terms, KEY_TERMS)]

get_cache_key(terms, itype) ==
    [image_type |-> itype, terms |-> sorted(Take(terms, KEY_TERMS))]

\* load_image_cache and the lookup; None is NoImage
get_cached_image(cache, terms, itype) ==
    LET key == get_cache_key(terms, itype)
    IN  IF key \in DOMAIN cache THEN cache[key] ELSE NoImage

\* load_image_cache, the assignment and save_image_cache
cache_image(cache, terms, itype, image_data) ==
    LET key == get_cache_key(terms, itype)
    IN  [k \in DOMAIN cache \cup {key} |-> IF k = key THEN image_data ELSE cache[k]]

(***************************************************************************)
(* search_and_validate_image.  The outcomes of the external steps (the     *)
(* search, the vision scores, the generator, the download and the drawing  *)
(* of markers) are chosen freely.  question is "" (absent), "plain" (no    *)
(* spatial keyword) or "spatial".                                          *)
(***************************************************************************)
ImageScores == {0, ACCEPT_SCORE - 1, ACCEPT_SCORE, 100}

QuestionDatas ==
    {NoQuestionData}
    \cup {[image_search_terms |-> <<t>>, image_type |-> "X-ray", question |-> q,
           image_description |-> d] :
            t \in 1..2, q \in {"", "plain", "spatial"}, d \in {TRUE}}
    \cup {[image_search_terms |-> <<t>>, image_type |-> "X-ray", question |-> "spatial",
           image_description |-> FALSE] : t \in 1..2}

Candidate(k) ==
    [url |-> [kind |-> "remote", n |-> k],
     source |-> [name |-> IF k % 2 = 1 THEN "Open-i (NIH)" ELSE "Wikimedia Commons",
                 with_markers |-> FALSE],
     title |-> [kind |-> "candidate", n |-> k]]

\* the dict {url, source, title} built from a scored candidate
Descriptor(c) == [t |-> "dict", url |-> c.url, source |-> c.source, title |-> c.title]

\* what generate_image_with_gemini returns when it succeeds
GeneratedImage ==
    [t |-> "dict", url |-> [kind |-> "generated", n |-> 0],
     source |-> [name |-> "Nano Banana Pro (AI Generated)", with_markers |-> FALSE],
     title |-> [kind |-> "generated", n |-> 0]]

GenerationOutcomes == {GeneratedImage, NoImage}

\* the descriptor after the marked copy replaced its url
Marked(d) ==
    [d EXCEPT !.url = [kind |-> "marked", n |-> d.url.n], !.source.with_markers = TRUE]

\* a descriptor (a non-empty dict) is truthy, None is not
ImageTruthy(d) == d.t = "dict"

\* add_visual_markers_to_image: None without a spatial keyword or on any error
MarkerOutcomes(question) ==
    IF question = "spatial" THEN {"marked", "failed"} ELSE {"no_keyword"}

DownloadOutcomes == {"raised", "not_200", "ok"}

\* the first candidate, whatever its score
FirstCandidate(scored) == scored[1]

\* max(scored_candidates, key=score): the first of the highest score
BestCandidate(scored) ==
    scored[CHOOSE k \in 1..Len(scored) :
              /\ \A j \in 1..Len(scored) : scored[j].score <= scored[k].score
              /\ \A j \in 1..(k - 1) : scored[j].score < scored[k].score]

WantsMarkers(qd) == qd.question # "" /\ qd.image_description

\* the threshold test with > in place of >=
AcceptsStrict(score) == score > ACCEPT_SCORE

\* best_candidate['score'] >= 80
Accepts(score) == score >= ACCEPT_SCORE

\* the result with the marked copy put in whatever add_visual_markers_to_image returned
MarkedResultAlways(chosen, markers) == Marked(chosen)

\* if marked_path: the marked copy replaces the url, else the result stays as it was
MarkedResult(chosen, markers) == IF markers = "marked" THEN Marked(chosen) ELSE chosen

\* the events of one add_visual_markers_to_image call
MarkerEvents(markers) ==
    IF markers = "marked" THEN <<"annotate", "marked">>
    ELSE IF markers = "failed" THEN <<"annotate", "annotate_failed">>
    ELSE <<"annotate">>

\* the return statement of the running resolution
Returns(r, evs, cache) ==
    /\ result' = r
    /\ events' = events \o evs
    /\ image_cache' = cache
    /\ img_pc' = "returned"

\* the call, the empty-terms return and the cache check
StartResolution(qd) ==
    /\ img_pc \in {"idle", "returned", "raised"}
    /\ call_count < MaxCalls
    /\ call_count' = call_count + 1
    /\ previous' = IF img_pc = "returned"
                   THEN [made |-> TRUE, question_data |-> question_data, result |-> result]
                   ELSE NoCall
    /\ question_data' = qd
    /\ cache_before' = image_cache
    /\ candidates' = <<>>
    /\ scored_candidates' = <<>>
    /\ image_cache' = image_cache
    /\ IF qd.image_search_terms = <<>>
       THEN /\ result' = NoImage
            /\ events' = <<>>
            /\ img_pc' = "returned"
       ELSE LET cached == get_cached_image(image_cache, qd.image_search_terms,
                                           qd.image_type)
            IN  /\ events' = <<"cache_read">>
                /\ result' = cached
                /\ img_pc' = IF ImageTruthy(cached) THEN "returned" ELSE "collect"
    /\ UNCHANGED gemini_client
    /\ UNCHANGED <<reviewVars, assessVars, keyVars, collectVars, extractVars,
                   validateVars, lessonVars>>

\* candidates = collect_candidate_images(...)
CollectCandidates ==
    /\ img_pc = "collect"
    /\ \E n \in 0..MaxCandidates :
        /\ candidates' = [k \in 1..n |-> Candidate(k)]
        /\ img_pc' = IF n = 0 THEN "no_candidates" ELSE "score"
    /\ events' = Append(events, "search")
    /\ UNCHANGED <<image_cache, gemini_client, question_data, scored_candidates, result,
                   cache_before, previous, call_count>>
    /\ UNCHANGED <<reviewVars, assessVars, keyVars, collectVars, extractVars,
                   validateVars, lessonVars>>

\* no candidate, with the empty outcome written to the cache
NoCandidatesCached ==
    /\ img_pc = "no_candidates"
    /\ Returns(NoImage, <<"cache_write">>,
               cache_image(image_cache, question_data.image_search_terms,
                           question_data.image_type, NoImage))
    /\ UNCHANGED <<gemini_client, question_data, candidates, scored_candidates,
                   cache_before, previous, call_count>>
    /\ UNCHANGED <<reviewVars, assessVars, keyVars, collectVars, extractVars,
                   validateVars, lessonVars>>

\* no candidate: the generated image, cached as it is, or None
NoCandidates ==
    /\ img_pc = "no_candidates"
    /\ IF gemini_client
       THEN \E generated \in GenerationOutcomes :
                IF ImageTruthy(generated)
                THEN Returns(generated, <<"generate", "generated", "cache_write">>,
                             cache_image(image_cache, question_data.image_search_terms,
                                         question_data.image_type, generated))
                ELSE Returns(NoImage, <<"generate">>, image_cache)
       ELSE Returns(NoImage, <<>>, image_cache)
    /\ UNCHANGED <<gemini_client, question_data, candidates, scored_candidates,
                   cache_before, previous, call_count>>
    /\ UNCHANGED <<reviewVars, assessVars, keyVars, collectVars, extractVars,
                   validateVars, lessonVars>>

\* validate_image_with_claude on every candidate, in order; a validation without
\* 'score' or 'reason' (see validate_image_with_claude) raises out of the
\* resolution at validation['score'], after `scored` candidates were scored
ScoreCandidates ==
    /\ img_pc = "score"
    /\ \E scored \in 0..Len(candidates) :
        \E scores \in [1..scored -> ImageScores] :
            /\ scored_candidates' =
                    [k \in 1..scored |->
                        [url |-> candidates[k].url, source |-> candidates[k].source,
                         title |-> candidates[k].title, score |-> scores[k]]]
            /\ events' = events \o [k \in 1..Min(scored + 1, Len(candidates)) |-> "score"]
            /\ img_pc' = IF scored = Len(candidates) THEN "select" ELSE "raised"
    /\ UNCHANGED <<image_cache, gemini_client, question_data, candidates, result,
                   cache_before, previous, call_count>>
    /\ UNCHANGED <<reviewVars, assessVars, keyVars, collectVars, extractVars,
                   validateVars, lessonVars>>

\* the best candidate reaches the threshold: it is cached, then markers are tried
AcceptBest ==
    /\ img_pc = "select"
    /\ Accepts(BestCandidate(scored_candidates).score)
    /\ LET chosen == Descriptor(BestCandidate(scored_candidates))
           cache == cache_image(image_cache, question_data.image_search_terms,
                                question_data.image_type, chosen)
       IN  IF WantsMarkers(question_data)
           THEN \E download \in DownloadOutcomes :
                    IF download = "ok"
                    THEN \E markers \in MarkerOutcomes(question_data.question) :
                            Returns(MarkedResult(chosen, markers),
                                    <<"cache_write", "download">> \o MarkerEvents(markers),
                                    cache)
                    ELSE Returns(chosen, <<"cache_write", "download", "download_failed">>,
                                 cache)
           ELSE Returns(chosen, <<"cache_write">>, cache)
    /\ UNCHANGED <<gemini_client, question_data, candidates, scored_candidates,
                   cache_before, previous, call_count>>
    /\ UNCHANGED <<reviewVars, assessVars, keyVars, collectVars, extractVars,
                   validateVars, lessonVars>>

\* the fallback with nothing returned
FallbackReturnsNone(evs) == Returns(NoImage, evs, image_cache)

\* the fallback to the best candidate, cached without markers
FallbackToBest(evs) ==
    LET chosen == Descriptor(BestCandidate(scored_candidates))
    IN  Returns(chosen, evs \o <<"cache_write">>,
                cache_image(image_cache, question_data.image_search_terms,
                            question_data.image_type, chosen))

\* the generated image, with markers tried before it is cached
ReturnGenerated(generated) ==
    IF WantsMarkers(question_data)
    THEN \E markers \in MarkerOutcomes(question_data.question) :
            LET final == MarkedResult(generated, markers)
            IN  Returns(final,
                        <<"generate", "generated">> \o MarkerEvents(markers)
                            \o <<"cache_write">>,
                        cache_image(image_cache, question_data.image_search_terms,
                                    question_data.image_type, final))
    ELSE Returns(generated, <<"generate", "generated", "cache_write">>,
                 cache_image(image_cache, question_data.image_search_terms,
                             question_data.image_type, generated))

\* the best candidate is below the threshold: generate, else fall back
GenerateOrFallback ==
    /\ img_pc = "select"
    /\ ~Accepts(BestCandidate(scored_candidates).score)
    /\ IF gemini_client
       THEN \E generated \in GenerationOutcomes :
                IF ImageTruthy(generated)
                THEN ReturnGenerated(generated)
                ELSE FallbackToBest(<<"generate">>)
       ELSE FallbackToBest(<<>>)
    /\ UNCHANGED <<gemini_client, question_data, candidates, scored_candidates,
                   cache_before, previous, call_count>>
    /\ UNCHANGED <<reviewVars, assessVars, keyVars, collectVars, extractVars,
                   validateVars, lessonVars>>

InitImage ==
    /\ ReviewIdle
    /\ AssessIdle
    /\ KeyIdle
    /\ CollectIdle
    /\ ExtractIdle
    /\ ValidateIdle
    /\ LessonIdle
    /\ image_cache = EmptyCache
    /\ gemini_client \in BOOLEAN
    /\ img_pc = "idle"
    /\ question_data = NoQuestionData
    /\ candidates = <<>>
    /\ scored_candidates = <<>>
    /\ result = NoImage
    /\ events = <<>>
    /\ cache_before = EmptyCache
    /\ previous = NoCall
    /\ call_count = 0

NextImage ==
    \/ \E qd \in QuestionDatas : StartResolution(qd)
    \/ CollectCandidates
    \/ NoCandidates
    \/ ScoreCandidates
    \/ AcceptBest
    \/ GenerateOrFallback

SpecImage == InitImage /\ [][NextImage]_vars

(***************************************************************************)
(* get_cache_key on a term list and on a permutation of it.                *)
(***************************************************************************)
\* longest term list
MaxTerms == 4
\* terms are 1..MaxTermId
MaxTermId == 3

TermLists == UNION {[1..n -> 1..MaxTermId] : n \in 0..MaxTerms}

Occurrences(s, x) == Cardinality({i \in DOMAIN s : s[i] = x})

IsPermutation(s1, s2) ==
    /\ Len(s1) = Len(s2)
    /\ \A x \in 1..MaxTermId : Occurrences(s1, x) = Occurrences(s2, x)

InitKey ==
    /\ ReviewIdle
    /\ AssessIdle
    /\ ImageIdle
    /\ CollectIdle
    /\ ExtractIdle
    /\ ValidateIdle
    /\ LessonIdle
    /\ search_terms \in TermLists
    /\ permuted_terms \in {s \in TermLists : IsPermutation(s, search_terms)}
    /\ image_type \in {"", "X-ray"}
    /\ cache_keys = <<>>

ComputeKeys ==
    /\ cache_keys = <<>>
    /\ cache_keys' = <<get_cache_key(search_terms, image_type),
                       get_cache_key(permuted_terms, image_type)>>
    /\ UNCHANGED <<search_terms, permuted_terms, image_type>>
    /\ UNCHANGED <<reviewVars, assessVars, imageVars, collectVars, extractVars,
                   validateVars, lessonVars>>

NextKey == ComputeKeys

SpecKey == InitKey /\ [][NextKey]_vars

(***************************************************************************)
(* collect_candidate_images.  One action is one query of a source: the     *)
(* request, the parsing of the response and the appends of its usable      *)
(* items.  An outcome says how many items are appended (0 also stands for  *)
(* a bad status or a response without results) and whether an exception is *)
(* raised after them (in the request or the parsing when there are none).  *)
(***************************************************************************)
\* longest list of search terms passed to the collection
MaxQueries == 6
\* terms each source is queried with: image_search_terms[:5]
SOURCE_TERMS == 5
\* items taken from one response: [:3]
ITEMS_PER_QUERY == 3
\* the max_candidates the pipeline passes (and the default)
MAX_CANDIDATES == 10

QueryOutcomes ==
    {[items |-> k, error |-> FALSE] : k \in {0, ITEMS_PER_QUERY}}
    \cup {[items |-> k, error |-> TRUE] : k \in {0, 1, ITEMS_PER_QUERY}}

\* the candidates a response adds: items 1..k of the query of `term` at `source`
NewCandidates(source, term, k) ==
    [r \in 1..k |-> [source |-> source, term |-> term, rank |-> r]]

\* an exception of the first source propagates to the caller
OnOpenIErrorRaise == "raised"

\* except Exception of the first source: logged, the second source is tried next
OnOpenIError == "wikimedia"

\* one query: `room` is what is left until max_candidates; the return inside
\* the loop comes before an exception that would follow the appended items
QueryStep(source, outcome, after_loop, after_error) ==
    LET term == col_idx + 1
        room == max_candidates - Len(col_candidates)
        full == outcome.items >= room
        k == Min(outcome.items, room)
        failed == outcome.error /\ ~full
        last == term = Min(Len(image_search_terms), SOURCE_TERMS)
    IN  /\ col_candidates' = col_candidates \o NewCandidates(source, term, k)
        /\ col_log' = Append(col_log, [source |-> source, term |-> term, items |-> k,
                                       error |-> failed])
        /\ col_pc' = IF full THEN "returned"
                     ELSE IF failed THEN after_error
                     ELSE IF last THEN after_loop
                     ELSE source
        /\ col_idx' = IF full \/ failed \/ last THEN 0 ELSE term

QueryOpenI ==
    /\ col_pc = "openi"
    /\ \E outcome \in QueryOutcomes :
        QueryStep("openi", outcome, "wikimedia", OnOpenIError)
    /\ UNCHANGED <<image_search_terms, max_candidates>>
    /\ UNCHANGED <<reviewVars, assessVars, imageVars, keyVars, extractVars,
                   validateVars, lessonVars>>

QueryWikimedia ==
    /\ col_pc = "wikimedia"
    /\ \E outcome \in QueryOutcomes :
        QueryStep("wikimedia", outcome, "returned", "returned")
    /\ UNCHANGED <<image_search_terms, max_candidates>>
    /\ UNCHANGED <<reviewVars, assessVars, imageVars, keyVars, extractVars,
                   validateVars, lessonVars>>

InitCollect ==
    /\ ReviewIdle
    /\ AssessIdle
    /\ ImageIdle
    /\ KeyIdle
    /\ ExtractIdle
    /\ ValidateIdle
    /\ LessonIdle
    /\ image_search_terms \in {[i \in 1..n |-> i] : n \in 1..MaxQueries}
    /\ max_candidates \in {2, MAX_CANDIDATES}
    /\ col_pc = "openi"
    /\ col_idx = 0
    /\ col_candidates = <<>>
    /\ col_log = <<>>

NextCollect ==
    \/ QueryOpenI
    \/ QueryWikimedia

SpecCollect == InitCollect /\ [][NextCollect]_vars

(***************************************************************************)
(* _extract_json_array.  The text is a sequence of tokens: the brackets    *)
(* and braces, a key with its colon ("items:" is one of the conventional   *)
(* wrapper keys, "score:" is any other key), the scalar "1" and "x", which *)
(* stands for prose that is not JSON.  Commas and white space are left     *)
(* out.  A parsed value is the sequence of the tokens it was parsed from;  *)
(* the empty sequence is None.  raw_decode(s, idx) parses the value that   *)
(* starts at idx and ignores what follows it.                              *)
(***************************************************************************)
\* longest text of the exhaustive part
MaxTextLen == 5

CONVENTIONAL_KEYS == <<"sections:", "items:", "questions:", "results:", "data:">>

OtherKeys == {"score:", "errors:"}

KeyTokens == {CONVENTIONAL_KEYS[k] : k \in DOMAIN CONVENTIONAL_KEYS} \cup OtherKeys

Alphabet == {"[", "]", "{", "}", "items:", "score:", "1", "x"}

\* responses of the shapes the prompts produce, longer than MaxTextLen
SampleTexts ==
    { <<"x", "{", "score:", "1", "errors:", "[", "]", "}", "x">>,
      <<"{", "score:", "1", "errors:", "[", "1", "1", "]", "}">>,
      <<"x", "[", "{", "score:", "1", "}", "{", "score:", "1", "}", "]">>,
      <<"{", "sections:", "[", "{", "score:", "1", "}", "]", "}">>,
      <<"{", "data:", "[", "1", "]", "items:", "[", "{", "}", "]", "}">>,
      <<"x", "[", "x", "]", "{", "score:", "{", "score:", "1", "}", "}", "x">>,
      <<"{", "x", "{", "score:", "1", "items:", "1", "}">>,
      <<"[", "x", "{", "score:", "1", "}", "[", "1", "]">> }

Texts == UNION {[1..n -> Alphabet] : n \in 0..MaxTextLen} \cup SampleTexts

RECURSIVE ValueEnd(_, _), ArrayEnd(_, _), ObjectEnd(_, _)
\* index of the last token of the JSON value that starts at i, 0 when none does
ValueEnd(s, i) ==
    IF i > Len(s) THEN 0
    ELSE IF s[i] = "1" THEN i
    ELSE IF s[i] = "[" THEN ArrayEnd(s, i + 1)
    ELSE IF s[i] = "{" THEN ObjectEnd(s, i + 1)
    ELSE 0

\* j is where the next element or the closing bracket must be
ArrayEnd(s, j) ==
    IF j > Len(s) THEN 0
    ELSE IF s[j] = "]" THEN j
    ELSE LET e == ValueEnd(s, j) IN IF e = 0 THEN 0 ELSE ArrayEnd(s, e + 1)

\* j is where the next key or the closing brace must be
ObjectEnd(s, j) ==
    IF j > Len(s) THEN 0
    ELSE IF s[j] = "}" THEN j
    ELSE IF s[j] \in KeyTokens
         THEN LET e == ValueEnd(s, j + 1) IN IF e = 0 THEN 0 ELSE ObjectEnd(s, e + 1)
    ELSE 0

Parses(s, i) == ValueEnd(s, i) # 0

ValueAt(s, i) == SubSeq(s, i, ValueEnd(s, i))

isinstance_list(v) == v # <<>> /\ v[1] = "["

isinstance_object(v) == v # <<>> /\ v[1] = "{"

RECURSIVE ElementsFrom(_, _)
\* the values of a well-formed run of values that starts at i
ElementsFrom(s, i) ==
    IF i > Len(s) THEN <<>>
    ELSE <<ValueAt(s, i)>> \o ElementsFrom(s, ValueEnd(s, i) + 1)

\* the Python list a parsed array is
Elements(v) == ElementsFrom(SubSeq(v, 2, Len(v) - 1), 1)

RECURSIVE FieldsFrom(_, _)
\* the key/value pairs of a well-formed run of fields that starts at i
FieldsFrom(s, i) ==
    IF i > Len(s) THEN <<>>
    ELSE <<[key |-> s[i], value |-> ValueAt(s, i + 1)]>>
             \o FieldsFrom(s, ValueEnd(s, i + 1) + 1)

Fields(v) == FieldsFrom(SubSeq(v, 2, Len(v) - 1), 1)

\* parsed.get(key): the value of the last field of that key, None without one
Get(v, key) ==
    LET fs == Fields(v)
        at == {k \in DOMAIN fs : fs[k].key = key}
    IN  IF at = {} THEN <<>> ELSE fs[CHOOSE k \in at : \A m \in at : m <= k].value

RECURSIVE TryParseFrom(_, _, _)
\* the find / raw_decode loop from idx on
TryParseFrom(s, start_char, idx) ==
    IF idx > Len(s) THEN <<>>
    ELSE IF s[idx] = start_char /\ Parses(s, idx) THEN ValueAt(s, idx)
    ELSE TryParseFrom(s, start_char, idx + 1)

\* the scan that gives up when the first occurrence does not parse
TryParseFirstOnly(s, start_char) ==
    LET at == {i \in DOMAIN s : s[i] = start_char}
    IN  IF at = {} THEN <<>>
        ELSE LET first == CHOOSE i \in at : \A m \in at : i <= m
             IN  IF Parses(s, first) THEN ValueAt(s, first) ELSE <<>>

_try_parse(s, start_char) == TryParseFrom(s, start_char, 1)

NotAList == [is_list |-> FALSE, list |-> <<>>]

AList(l) == [is_list |-> TRUE, list |-> l]

RECURSIVE UnwrapFrom(_, _)
\* the loop over the conventional keys from the k-th on, then [parsed]
UnwrapFrom(parsed, k) ==
    IF k > Len(CONVENTIONAL_KEYS) THEN AList(<<parsed>>)
    ELSE IF isinstance_list(Get(parsed, CONVENTIONAL_KEYS[k]))
         THEN AList(Elements(Get(parsed, CONVENTIONAL_KEYS[k])))
    ELSE UnwrapFrom(parsed, k + 1)

_normalise(parsed) ==
    IF isinstance_list(parsed) THEN AList(Elements(parsed))
    ELSE IF isinstance_object(parsed) THEN UnwrapFrom(parsed, 1)
    ELSE NotAList

_extract_json_array(s) ==
    IF s = <<>> THEN <<>>
    ELSE LET from_array == _normalise(_try_parse(s, "["))
             from_object == _normalise(_try_parse(s, "{"))
         IN  IF from_array.is_list THEN from_array.list
             ELSE IF from_object.is_list THEN from_object.list
             ELSE <<>>

InitExtract ==
    /\ ReviewIdle
    /\ AssessIdle
    /\ ImageIdle
    /\ KeyIdle
    /\ CollectIdle
    /\ ValidateIdle
    /\ LessonIdle
    /\ raw_text \in Texts
    /\ extract_pc = "called"
    /\ extracted = <<>>

Extract ==
    /\ extract_pc = "called"
    /\ extracted' = _extract_json_array(raw_text)
    /\ extract_pc' = "returned"
    /\ UNCHANGED raw_text
    /\ UNCHANGED <<reviewVars, assessVars, imageVars, keyVars, collectVars,
                   validateVars, lessonVars>>

NextExtract == Extract

SpecExtract == InitExtract /\ [][NextExtract]_vars

(***************************************************************************)
(* validate_image_with_claude.  The download raises, answers with another  *)
(* status than 200, or succeeds; the vision call raises or replies with a  *)
(* text, which json.loads rejects or turns into a value.  The prompt asks  *)
(* for {"score": 0-100, "reason": ...}; the reply is whatever the model    *)
(* wrote.                                                                  *)
(***************************************************************************)
\* the highest score the prompt asks for
MAX_IMAGE_SCORE == 100

ReplyValues ==
    {PyValue("dict", TRUE, sc, r) : sc \in (0 - 1)..(MAX_IMAGE_SCORE + 1), r \in BOOLEAN}
    \cup {PyValue("dict", FALSE, 0, r) : r \in BOOLEAN}
    \cup {PyValue("list", FALSE, 0, FALSE)}

VisionReplies ==
    {[kind |-> k, value |-> NoValidation] : k \in {"raised", "not_json"}}
    \cup {[kind |-> "json", value |-> v] : v \in ReplyValues}

\* {'score': 0, 'reason': ...} of the early return and of the except clause
ScoreZero == PyValue("dict", TRUE, 0, TRUE)

validate_image_with_claude(download, reply) ==
    IF download = "raised" THEN [called |-> FALSE, value |-> ScoreZero]
    ELSE IF download = "not_200" THEN [called |-> FALSE, value |-> ScoreZero]
    ELSE IF reply.kind \in {"raised", "not_json"} THEN [called |-> TRUE, value |-> ScoreZero]
    ELSE [called |-> TRUE, value |-> reply.value]

InitValidate ==
    /\ ReviewIdle
    /\ AssessIdle
    /\ ImageIdle
    /\ KeyIdle
    /\ CollectIdle
    /\ ExtractIdle
    /\ LessonIdle
    /\ val_download \in DownloadOutcomes
    /\ val_reply \in VisionReplies
    /\ val_pc = "called"
    /\ vision_called = FALSE
    /\ validation = NoValidation

Validate ==
    /\ val_pc = "called"
    /\ LET done == validate_image_with_claude(val_download, val_reply)
       IN  /\ validation' = done.value
           /\ vision_called' = done.called
    /\ val_pc' = "returned"
    /\ UNCHANGED <<val_download, val_reply>>
    /\ UNCHANGED <<reviewVars, assessVars, imageVars, keyVars, collectVars, extractVars,
                   lessonVars>>

NextValidate == Validate

SpecValidate == InitValidate /\ [][NextValidate]_vars

(***************************************************************************)
(* integrate_images_into_lesson.  The lesson text is a sequence of         *)
(* segments: plain text, a figure placeholder "**Figure n: [Image: d]**"   *)
(* (the whole match of image_pattern), or the markdown that replaced one.  *)
(* Two placeholders with the same number and description are the same      *)
(* string.  Every searchable figure has a worker running _fetch_image, and *)
(* the workers share image_cache.json: cache_image loads the file, sets    *)
(* one key and saves the whole dict, with no lock around the three.        *)
(***************************************************************************)
MaxSegments == 3

NoUrlOfImage == [kind |-> "", n |-> 0]

TextSegment == [kind |-> "text", figure_num |-> 0, description |-> "", url |-> NoUrlOfImage]

Placeholder(figure_num, description) ==
    [kind |-> "placeholder", figure_num |-> figure_num, description |-> description,
     url |-> NoUrlOfImage]

\* f"![{description}]({result['url']})\n*Figure {figure_num}: {description}*"
Markdown(figure_num, description, url) ==
    [kind |-> "markdown", figure_num |-> figure_num, description |-> description,
     url |-> url]

\* any(t in desc_lower for t in vague_terms)
vague(description) == description \in {"ecg pathway"}

\* any(t in desc_lower for t in specific_terms)
specific(description) == description \in {"ecg", "chest x-ray", "ecg pathway"}

LessonSegments ==
    {TextSegment}
    \cup {Placeholder(f[1], f[2]) :
            f \in {<<1, "ecg">>, <<2, "ecg">>, <<2, "chest x-ray">>,
                   <<1, "ecg pathway">>, <<2, "patient">>}}

\* the loop over re.finditer: the searchable figures, in the order of the text
RECURSIVE SearchableFigures(_, _)
SearchableFigures(content, p) ==
    IF p > Len(content) THEN <<>>
    ELSE LET seg == content[p]
         IN  IF seg.kind = "placeholder" /\ ~vague(seg.description)
                                         /\ specific(seg.description)
             THEN <<[figure_num |-> seg.figure_num,
                     description |-> seg.description,
                     full_placeholder |-> seg]>> \o SearchableFigures(content, p + 1)
             ELSE SearchableFigures(content, p + 1)

\* the three search terms _fetch_image builds from subject, topic and description
FigureTerms(description) ==
    LET d == IF description = "ecg" THEN 1 ELSE 2
    IN  <<3 * d, 3 * d + 1, 3 * d + 2>>

FigureImageType == "Medical illustration"

\* what search_and_validate_image comes to when the cache has no entry: an
\* image, None, or an exception
ResolutionOutcomes ==
    {[raised |-> FALSE, image |-> Descriptor(Candidate(1))],
     [raised |-> FALSE, image |-> GeneratedImage],
     [raised |-> FALSE, image |-> NoImage],
     [raised |-> TRUE, image |-> NoImage]}

Submitted ==
    [pc |-> "submitted", result |-> NoImage, raised |-> FALSE, loaded |-> EmptyCache,
     wrote |-> FALSE]

\* a replacement of the first occurrence only: a mutant of Replace
ReplaceFirstOnly(content, placeholder, markdown) ==
    [p \in 1..Len(content) |->
        IF content[p] = placeholder /\ \A q \in 1..(p - 1) : content[q] # placeholder
        THEN markdown ELSE content[p]]

\* lesson_content.replace(placeholder, markdown): every occurrence
Replace(content, placeholder, markdown) ==
    [p \in 1..Len(content) |-> IF content[p] = placeholder THEN markdown ELSE content[p]]

\* a cache left by an earlier lesson
EarlierCache ==
    cache_image(EmptyCache, <<0>>, FigureImageType, Descriptor(Candidate(2)))

InitLesson ==
    /\ ReviewIdle
    /\ AssessIdle
    /\ ImageIdle
    /\ KeyIdle
    /\ CollectIdle
    /\ ExtractIdle
    /\ ValidateIdle
    /\ lesson_content \in SeqsUpTo(LessonSegments, MaxSegments)
    /\ original_content = lesson_content
    /\ lesson_figures = <<>>
    /\ lesson_pc = "called"
    /\ workers = <<>>
    /\ fig_next = 0
    /\ cache_file \in {EmptyCache, EarlierCache}
    /\ cache_at_start = cache_file

\* the figures are collected and one _fetch_image per figure is submitted
SubmitFigures ==
    /\ lesson_pc = "called"
    /\ LET figures == SearchableFigures(lesson_content, 1)
       IN  /\ lesson_figures' = figures
           /\ workers' = [w \in 1..Len(figures) |-> Submitted]
           /\ lesson_pc' = IF figures = <<>> THEN "returned" ELSE "collecting"
    /\ fig_next' = 0
    /\ UNCHANGED <<lesson_content, cache_file, original_content, cache_at_start>>
    /\ UNCHANGED <<reviewVars, assessVars, imageVars, keyVars, collectVars, extractVars,
                   validateVars>>

\* _fetch_image up to the cache write: the cache lookup, then the resolution; an
\* exception of search_and_validate_image is caught and gives None
FetchImage(w) ==
    /\ lesson_pc = "collecting"
    /\ w \in DOMAIN workers
    /\ workers[w].pc = "submitted"
    /\ LET cached == get_cached_image(cache_file,
                                      FigureTerms(lesson_figures[w].description),
                                      FigureImageType)
       IN  IF ImageTruthy(cached)
           THEN workers' = [workers EXCEPT ![w].pc = "done", ![w].result = cached]
           ELSE \E outcome \in ResolutionOutcomes :
                    workers' = [workers EXCEPT
                                  ![w].pc = IF ImageTruthy(outcome.image)
                                            THEN "found" ELSE "done",
                                  ![w].result = outcome.image,
                                  ![w].raised = outcome.raised]
    /\ UNCHANGED <<lesson_content, lesson_figures, lesson_pc, fig_next, cache_file,
                   original_content, cache_at_start>>
    /\ UNCHANGED <<reviewVars, assessVars, imageVars, keyVars, collectVars, extractVars,
                   validateVars>>

\* cache_image, first half: cache = load_image_cache()
CacheLoad(w) ==
    /\ lesson_pc = "collecting"
    /\ w \in DOMAIN workers
    /\ workers[w].pc = "found"
    /\ workers' = [workers EXCEPT ![w].pc = "loaded", ![w].loaded = cache_file]
    /\ UNCHANGED <<lesson_content, lesson_figures, lesson_pc, fig_next, cache_file,
                   original_content, cache_at_start>>
    /\ UNCHANGED <<reviewVars, assessVars, imageVars, keyVars, collectVars, extractVars,
                   validateVars>>

\* cache_image, second half: cache[cache_key] = image_data; save_image_cache(cache)
CacheSave(w) ==
    /\ lesson_pc = "collecting"
    /\ w \in DOMAIN workers
    /\ workers[w].pc = "loaded"
    /\ cache_file' = cache_image(workers[w].loaded,
                                 FigureTerms(lesson_figures[w].description),
                                 FigureImageType, workers[w].result)
    /\ workers' = [workers EXCEPT ![w].pc = "done", ![w].loaded = EmptyCache,
                                  ![w].wrote = TRUE]
    /\ UNCHANGED <<lesson_content, lesson_figures, lesson_pc, fig_next,
                   original_content, cache_at_start>>
    /\ UNCHANGED <<reviewVars, assessVars, imageVars, keyVars, collectVars, extractVars,
                   validateVars>>

\* for fut in futures: fut.result() of the next future in submission order, and
\* the replacement when it holds an image; the return after the last one
ReplacePlaceholder ==
    /\ lesson_pc = "collecting"
    /\ fig_next < Len(workers)
    /\ LET w == fig_next + 1
           figure == lesson_figures[w]
       IN  /\ workers[w].pc = "done"
           /\ lesson_content' =
                IF ImageTruthy(workers[w].result)
                THEN Replace(lesson_content, figure.full_placeholder,
                             Markdown(figure.figure_num, figure.description,
                                      workers[w].result.url))
                ELSE lesson_content
           /\ fig_next' = w
           /\ lesson_pc' = IF w = Len(workers) THEN "returned" ELSE "collecting"
    /\ UNCHANGED <<lesson_figures, workers, cache_file, original_content, cache_at_start>>
    /\ UNCHANGED <<reviewVars, assessVars, imageVars, keyVars, collectVars, extractVars,
                   validateVars>>

NextLesson ==
    \/ SubmitFigures
    \/ \E w \in 1..MaxSegments : FetchImage(w)
    \/ \E w \in 1..MaxSegments : CacheLoad(w)
    \/ \E w \in 1..MaxSegments : CacheSave(w)
    \/ ReplacePlaceholder

SpecLesson == InitLesson /\ [][NextLesson]_vars

(***************************************************************************)
(* Vocabulary of the properties.                                           *)
(***************************************************************************)
ReportReturned == pc = "done" /\ response.kind = "report"

Disqualified(i) == PreScreenReason(content_type, items[i]) # ""

\* position (1-based) of surviving item i among the surviving items
SurvivorPos(i) == Cardinality({k \in 1..i : ~Disqualified(k)})

BatchOf(p) == ((p - 1) \div BATCH_SIZE(content_type)) + 1

\* the future of `role` failed: its call raised, or no JSON could be extracted
Failed(n, role) ==
    \/ futures[n][role].state = "raised"
    \/ futures[n][role].state = "returned" /\ futures[n][role].extracted = <<>>

\* the verdict the call of `role` produced for surviving position p ({} when the
\* call raised, returned too few verdicts, or returned a non-dict there)
ProducedFor(role, p) ==
    LET fut == futures[BatchOf(p)][role]
        j == ((p - 1) % BATCH_SIZE(content_type)) + 1
    IN  IF fut.state = "returned" /\ j <= Len(fut.extracted) /\ fut.extracted[j].t = "dict"
        THEN fut.extracted[j]
        ELSE EmptyDict

VerdictOf(role, item) == IF role = "validator" THEN item.validator ELSE item.adversarial

Survivors == {i \in 1..Len(items) : ~Disqualified(i)}

(***************************************************************************)
(* C1.  The report has exactly N entries; entry i has index i and carries  *)
(* the verdicts of input item i: the structural-failure stand-in when item *)
(* i was disqualified, otherwise the verdicts its batch calls produced for *)
(* its position among the surviving items -- whatever the order in which   *)
(* the futures completed.                                                  *)
(***************************************************************************)
C1_OrderPreserved ==
    ReportReturned =>
        /\ Len(response.items) = Len(items)
        /\ \A i \in 1..Len(items) :
            LET entry == response.items[i]
            IN  /\ entry.index = i
                /\ IF Disqualified(i)
                   THEN /\ entry.structural_failure
                        /\ entry.validator.question_number = i
                        /\ entry.adversarial.breakability_rating = RatingSkipped
                   ELSE /\ ~entry.structural_failure
                        /\ \A role \in Roles :
                            VerdictOf(role, entry) = ProducedFor(role, SurvivorPos(i))

\* a report of three sections in two batches whose futures completed out of
\* submission order, every call having returned its verdicts
C1_Witness ==
    /\ ReportReturned
    /\ out_of_order
    /\ Len(futures) = 2
    /\ \A n \in 1..2 : \A role \in Roles :
        /\ futures[n][role].state = "returned"
        /\ Len(futures[n][role].results) = batch_specs[n].batch_count
    /\ response.items[3].validator # EmptyDict

(***************************************************************************)
(* C2.  A qbank item whose text matches the image-reference pattern and    *)
(* whose image_url is empty is in the report as a structural failure and   *)
(* is in no payload passed to a validator or adversarial call.             *)
(***************************************************************************)
RefWithoutImage(i) ==
    content_type = "qbank" /\ items[i].question_ref /\ items[i].image_url = NoUrl

C2_StructuralBypass ==
    \A i \in 1..Len(items) :
        RefWithoutImage(i) =>
            /\ ReportReturned => response.items[i].structural_failure
            /\ \A call \in BagToSet(llm_calls) :
                \A k \in 1..Len(call.payload) : call.payload[k].item # i

\* such an item is reported next to an item that both passes reviewed
C2_Witness ==
    /\ ReportReturned
    /\ \E i \in 1..Len(items) : RefWithoutImage(i) /\ response.items[i].structural_failure
    /\ BagCardinality(llm_calls) = 2

Assessed ==
    /\ assessment # NoAssessment
    /\ "overall_accuracy_score" \in validator_result.keys
    /\ "adversarial_score" \in adversarial_result.keys

(***************************************************************************)
(* C4.  For validator score v and adversarial score a in 0..10 the         *)
(* assessment has quality_score = (v + (10 - a)) / 2 exactly, and          *)
(* validator_score = v and adversarial_score = a.                          *)
(***************************************************************************)
C4_QualityFormula ==
    Assessed =>
        LET v == validator_result.overall_accuracy_score
            a == adversarial_result.adversarial_score
        IN  /\ 2 * assessment.quality_score = 100 * (v + (10 - a))
            /\ assessment.validator_score = v
            /\ assessment.adversarial_score = a

\* v = 9, a = 2 gives 8.5
C4_Witness ==
    /\ Assessed
    /\ validator_result.overall_accuracy_score = 9
    /\ adversarial_result.adversarial_score = 2
    /\ assessment.quality_score = 850

(***************************************************************************)
(* C5.  As claimed: Approved exactly when quality_score >= 8 and           *)
(* needs_revision is false, Conditional exactly when 6 <= quality_score    *)
(* < 8, Needs Revision in every other case (quality_score >= 8 with        *)
(* needs_revision true included).                                          *)
(***************************************************************************)
C5_StatusAsClaimed ==
    Assessed =>
        LET q == assessment.quality_score
            nr == validator_result.needs_revision
        IN  assessment.status =
                IF q >= 800 /\ ~nr THEN StatusApproved
                ELSE IF q >= 600 /\ q < 800 THEN StatusConditional
                ELSE StatusNeedsRevision

(***************************************************************************)
(* C5, amended.  Approved exactly when quality_score >= 8 and              *)
(* needs_revision is false; Conditional exactly when quality_score >= 6    *)
(* and the item is not Approved (6 <= quality_score < 8, or quality_score  *)
(* >= 8 with needs_revision true); Needs Revision exactly when             *)
(* quality_score < 6.                                                      *)
(***************************************************************************)
C5_StatusAmended ==
    Assessed =>
        LET twice == validator_result.overall_accuracy_score
                     + (10 - adversarial_result.adversarial_score)
            nr == validator_result.needs_revision
        IN  /\ (assessment.status = StatusApproved) <=> (twice >= 16 /\ ~nr)
            /\ (assessment.status = StatusConditional)
                   <=> (twice >= 12 /\ ~(twice >= 16 /\ ~nr))
            /\ (assessment.status = StatusNeedsRevision) <=> (twice < 12)

\* quality 8.5 with needs_revision true is Conditional
C5_Witness ==
    /\ Assessed
    /\ validator_result.needs_revision
    /\ assessment.quality_score = 850
    /\ assessment.status = StatusConditional

(***************************************************************************)
(* C6.  Every item of a report whose quality_score is below 6 has          *)
(* needs_revision = true.                                                  *)
(***************************************************************************)
C6_LowQualityNeedsRevision ==
    ReportReturned =>
        \A i \in 1..Len(response.items) :
            response.items[i].overall_assessment.quality_score < 600
                => response.items[i].overall_assessment.needs_revision

(***************************************************************************)
(* C7.  Every item of a report has a validator and an adversarial field    *)
(* that are dicts (possibly empty), never None.                            *)
(***************************************************************************)
C7_VerdictsAreDicts ==
    ReportReturned =>
        \A i \in 1..Len(response.items) : \A role \in Roles :
            VerdictOf(role, response.items[i]).t = "dict"

\* a report after one call raised, one returned a non-dict element and one
\* returned fewer verdicts than items
C7_Witness ==
    /\ ReportReturned
    /\ \E n \in 1..Len(futures) : \E role \in Roles : futures[n][role].state = "raised"
    /\ \E n \in 1..Len(futures) : \E role \in Roles :
        /\ futures[n][role].state = "returned"
        /\ \E j \in 1..Len(futures[n][role].results) : futures[n][role].results[j] = NonDict
    /\ \E n \in 1..Len(futures) : \E role \in Roles :
        /\ futures[n][role].state = "returned"
        /\ Len(futures[n][role].results) < batch_specs[n].batch_count

(***************************************************************************)
(* C8.  Every structural-failure item of a report has the fixed stand-in   *)
(* verdicts: validator score 2 with needs_revision true, adversarial score *)
(* 0 with the rating that marks the review as skipped -- whatever the      *)
(* calls of the request returned.                                          *)
(***************************************************************************)
C8_StructuralStandIn ==
    ReportReturned =>
        \A i \in 1..Len(response.items) :
            response.items[i].structural_failure =>
                /\ response.items[i].validator = ValidatorVerdict(i, 2, TRUE)
                /\ response.items[i].adversarial = AdversarialVerdict(i, 0, RatingSkipped)

\* a structural failure reported next to an item both passes gave verdicts for
C8_Witness ==
    /\ ReportReturned
    /\ \E i \in 1..Len(response.items) : response.items[i].structural_failure
    /\ \E i \in 1..Len(response.items) :
        /\ ~response.items[i].structural_failure
        /\ response.items[i].validator # EmptyDict
        /\ response.items[i].adversarial # EmptyDict

(***************************************************************************)
(* C9.  As claimed: an item whose validator and adversarial verdicts are   *)
(* both empty dicts gets quality score 0 and needs_revision false.         *)
(***************************************************************************)
BothEmpty(entry) == entry.validator = EmptyDict /\ entry.adversarial = EmptyDict

C9_EmptyVerdictsScoreZero ==
    ReportReturned =>
        \A i \in 1..Len(response.items) :
            BothEmpty(response.items[i]) =>
                /\ response.items[i].overall_assessment.quality_score = 0
                /\ ~response.items[i].overall_assessment.needs_revision

(***************************************************************************)
(* C9, amended.  An item whose validator and adversarial verdicts are both *)
(* empty dicts gets validator_score 0, adversarial_score 0, hence quality  *)
(* score 5.0 (status Needs Revision), and needs_revision false.            *)
(***************************************************************************)
C9_EmptyVerdictsScoreFive ==
    ReportReturned =>
        \A i \in 1..Len(response.items) :
            BothEmpty(response.items[i]) =>
                /\ response.items[i].overall_assessment.quality_score = 500
                /\ response.items[i].overall_assessment.validator_score = 0
                /\ response.items[i].overall_assessment.adversarial_score = 0
                /\ response.items[i].overall_assessment.status = StatusNeedsRevision
                /\ ~response.items[i].overall_assessment.needs_revision

\* both calls of a batch failed and its item is reported with empty verdicts
C9_Witness ==
    /\ ReportReturned
    /\ content_type = "lesson"
    /\ Len(futures) >= 1
    /\ Failed(1, "validator")
    /\ Failed(1, "adversarial")
    /\ BothEmpty(response.items[1])

(***************************************************************************)
(* C10.  summary.total = N, summary.structural_failures is the number of   *)
(* pre-screened items, summary.approved is the number of items whose       *)
(* status is Approved and summary.needs_revision counts the rest.          *)
(***************************************************************************)
C10_SummaryCounts ==
    ReportReturned =>
        LET approved == {i \in 1..Len(response.items) :
                            response.items[i].overall_assessment.status = StatusApproved}
        IN  /\ response.summary.total = Len(items)
            /\ response.summary.structural_failures =
                    Cardinality({i \in 1..Len(items) : Disqualified(i)})
            /\ response.summary.approved = Cardinality(approved)
            /\ response.summary.needs_revision = Len(items) - Cardinality(approved)

(***************************************************************************)
(* Vocabulary of the image-pipeline properties.                            *)
(***************************************************************************)
Resolved == img_pc = "returned"

Occurs(e) == \E i \in DOMAIN events : events[i] = e

Before(e, f) == \E i, j \in DOMAIN events : i < j /\ events[i] = e /\ events[j] = f

ExternalCalls == {"search", "score", "generate", "download", "annotate"}

\* the resolution before had the same search terms and modality
SameSearchAsPrevious ==
    /\ previous.made
    /\ previous.question_data.image_search_terms = question_data.image_search_terms
    /\ previous.question_data.image_type = question_data.image_type

Scored == scored_candidates # <<>>

Best == BestCandidate(scored_candidates)

\* the cache entry of the running resolution's key
CachedNow ==
    get_cached_image(image_cache, question_data.image_search_terms,
                     question_data.image_type)

\* the image the resolution chose, before any markers
Chosen == IF Occurs("generated") THEN GeneratedImage ELSE Descriptor(Best)

C13_AnnotateBeforeCacheWrite ==
    (Resolved /\ Scored /\ Best.score >= ACCEPT_SCORE)
        => /\ Occurs("annotate") => Before("annotate", "cache_write")
           /\ CachedNow = result

(***************************************************************************)
(* C14.  With candidates, a best score below the threshold and the         *)
(* generator not configured or failing, the best-scored candidate is       *)
(* returned and cached as it is, and no annotation (nor its download) is   *)
(* tried.                                                                  *)
(***************************************************************************)
C14_FallbackToBest ==
    (Resolved /\ Scored /\ Best.score < ACCEPT_SCORE /\ ~Occurs("generated"))
        => /\ ImageTruthy(result)
           /\ result = Descriptor(Best)
           /\ Occurs("cache_write")
           /\ CachedNow = result
           /\ ~Occurs("annotate")
           /\ ~Occurs("download")

C14_Witness ==
    /\ Resolved
    /\ Scored
    /\ Len(scored_candidates) = 2
    /\ Best.score = ACCEPT_SCORE - 1
    /\ gemini_client
    /\ Occurs("generate")
    /\ ~Occurs("generated")
    /\ WantsMarkers(question_data)
    /\ question_data.question = "spatial"
    /\ result = Descriptor(Best)

(***************************************************************************)
(* C15.  With no candidate and the generator not configured or failing,    *)
(* the resolution returns None and leaves the cache as it was; a           *)
(* resolution of the same terms and modality that follows one that         *)
(* returned None searches again.                                           *)
(***************************************************************************)
C15_NothingFoundNothingCached ==
    /\ (Resolved /\ Occurs("search") /\ candidates = <<>> /\ ~Occurs("generated"))
           => /\ result = NoImage
              /\ image_cache = cache_before
    /\ (Resolved /\ SameSearchAsPrevious /\ question_data.image_search_terms # <<>>
            /\ ~ImageTruthy(previous.result))
           => Occurs("search")

C15_Witness ==
    /\ Resolved
    /\ SameSearchAsPrevious
    /\ question_data.image_search_terms # <<>>
    /\ ~ImageTruthy(previous.result)
    /\ Occurs("search")
    /\ candidates = <<>>
    /\ gemini_client
    /\ Occurs("generate")
    /\ result = NoImage
    /\ image_cache = EmptyCache

(***************************************************************************)
(* C16.  When the download or the drawing of markers fails, the            *)
(* resolution still returns the chosen image, its url and source as they   *)
(* were.                                                                   *)
(***************************************************************************)
C16_AnnotationFailureHarmless ==
    (Resolved /\ (Occurs("download_failed") \/ Occurs("annotate_failed")))
        => /\ ImageTruthy(result)
           /\ result = Chosen
           /\ result.url = Chosen.url
           /\ result.source = Chosen.source

C16_Witness ==
    /\ Resolved
    /\ Scored
    /\ Best.score >= ACCEPT_SCORE
    /\ Occurs("download")
    /\ Occurs("annotate_failed")
    /\ result = Descriptor(Best)

RECURSIVE CollectedInLog(_)
\* the candidates of every logged response, in the order of the queries
CollectedInLog(log) ==
    IF log = <<>> THEN <<>>
    ELSE CollectedInLog(SubSeq(log, 1, Len(log) - 1))
             \o NewCandidates(log[Len(log)].source, log[Len(log)].term,
                              log[Len(log)].items)

OpenIFailed == \E i \in DOMAIN col_log : col_log[i].source = "openi" /\ col_log[i].error

WikimediaQueried == \E i \in DOMAIN col_log : col_log[i].source = "wikimedia"

(***************************************************************************)
(* C18.  The collection never raises; once the first source has failed on  *)
(* a query the second source is queried next; the call returns every       *)
(* candidate appended before and after the failure, in order, and at most  *)
(* max_candidates of them.                                                 *)
(***************************************************************************)
C18_CollectionTolerant ==
    /\ col_pc # "raised"
    /\ OpenIFailed => (col_pc \in {"wikimedia", "returned"}
                       /\ (col_pc = "returned" => WikimediaQueried))
    /\ col_pc = "returned"
           => /\ col_candidates = CollectedInLog(col_log)
              /\ Len(col_candidates) <= max_candidates

C18_Witness ==
    /\ col_pc = "returned"
    /\ OpenIFailed
    /\ \E i \in DOMAIN col_log :
        col_log[i].source = "openi" /\ col_log[i].items > 0 /\ ~col_log[i].error
    /\ \E i \in DOMAIN col_log : col_log[i].source = "wikimedia" /\ col_log[i].items > 0
    /\ Len(col_candidates) = MAX_CANDIDATES

(***************************************************************************)
(* Vocabulary of the extraction properties.                                *)
(***************************************************************************)
ExtractionReturned == extract_pc = "returned"

\* the positions of start_char at which a value parses
ParsingAt(start_char) ==
    {i \in DOMAIN raw_text : raw_text[i] = start_char /\ Parses(raw_text, i)}

Lowest(S) == CHOOSE i \in S : \A m \in S : i <= m

\* the conventional keys, by their place in the code's order, that hold a list in v
ListKeys(v) ==
    {k \in DOMAIN CONVENTIONAL_KEYS : isinstance_list(Get(v, CONVENTIONAL_KEYS[k]))}

\* the text is prose, one object without a conventional key, prose
SingleObjectAt(i) ==
    /\ raw_text[i] = "{"
    /\ Parses(raw_text, i)
    /\ \A j \in DOMAIN raw_text :
        (j < i \/ j > ValueEnd(raw_text, i)) => raw_text[j] = "x"
    /\ \A k \in DOMAIN CONVENTIONAL_KEYS :
        \A f \in DOMAIN Fields(ValueAt(raw_text, i)) :
            Fields(ValueAt(raw_text, i))[f].key # CONVENTIONAL_KEYS[k]

(***************************************************************************)
(* C19.  A response that is one object (no wrapper array, no conventional  *)
(* key), with or without array-valued fields, is returned as the           *)
(* one-element list of that object.                                        *)
(***************************************************************************)
C19_SingleObjectWrapped ==
    ExtractionReturned =>
        \A i \in DOMAIN raw_text :
            SingleObjectAt(i) => extracted = <<ValueAt(raw_text, i)>>

(***************************************************************************)
(* C20.  The result is the array parsed at the first '[' at which a value  *)
(* parses; when there is none, it comes from the object parsed at the      *)
(* first '{' at which a value parses: the list under the first             *)
(* conventional key that holds one, else the object as a one-element list; *)
(* when nothing parses, or the text is empty, it is the empty list.        *)
(***************************************************************************)
C20_FallbackOrder ==
    ExtractionReturned =>
        IF ParsingAt("[") # {}
        THEN extracted = Elements(ValueAt(raw_text, Lowest(ParsingAt("["))))
        ELSE IF ParsingAt("{") # {}
        THEN LET parsed == ValueAt(raw_text, Lowest(ParsingAt("{")))
             IN  IF ListKeys(parsed) # {}
                 THEN extracted =
                          Elements(Get(parsed, CONVENTIONAL_KEYS[Lowest(ListKeys(parsed))]))
                 ELSE extracted = <<parsed>>
        ELSE extracted = <<>>

C20_Witness ==
    /\ ExtractionReturned
    /\ ParsingAt("[") # {}
    /\ \E i \in DOMAIN raw_text : raw_text[i] = "[" /\ i < Lowest(ParsingAt("["))
    /\ ParsingAt("{") # {}
    /\ Lowest(ParsingAt("{")) < Lowest(ParsingAt("["))
    /\ extracted # <<>>

(***************************************************************************)
(* C21.  With M surviving items and batch size B, the request makes one    *)
(* validator call and one adversarial call for each of the ceil(M / B)     *)
(* batches, 2 * ceil(M / B) calls in all (none when M = 0), and no call is *)
(* made twice, whether it failed or returned malformed text.               *)
(***************************************************************************)
C21_OneCallPerBatchAndPass ==
    LET M == Cardinality(Survivors)
        B == BATCH_SIZE(content_type)
        batches == (M + B - 1) \div B
    IN  /\ \A c \in BagToSet(llm_calls) : CopiesIn(c, llm_calls) = 1
        /\ BagCardinality(llm_calls) <= 2 * batches
        /\ ReportReturned =>
            /\ BagCardinality(llm_calls) = 2 * batches
            /\ \A n \in 1..batches : \A role \in Roles :
                Cardinality({c \in BagToSet(llm_calls) :
                                c.role = role /\ c.b_start = (n - 1) * B}) = 1

C21_Witness ==
    /\ ReportReturned
    /\ content_type = "lesson"
    /\ Cardinality(Survivors) = 3
    /\ futures[1]["validator"].state = "raised"
    /\ futures[2]["adversarial"].state = "returned"
    /\ futures[2]["adversarial"].extracted = <<>>
    /\ BagCardinality(llm_calls) = 4

(***************************************************************************)
(* C22.  Once a qbank request is pre-screened, an item is pre-scored as a  *)
(* structural failure exactly when it has a local image_url whose file     *)
(* does not exist, or has no image_url while its text references an image. *)
(* An item with a remote image_url is never pre-scored, reachable or not;  *)
(* an item with no image_url and no reference in its text never is; and an *)
(* item of a lesson request never is.                                      *)
(***************************************************************************)
C22_PreScreenExact ==
    (pc \in {"prescreened", "built", "running"} \/ ReportReturned) =>
        \A i \in 1..Len(items) :
            LET q == items[i]
                remote == q.image_url \in {RemoteUrl, RemoteDeadUrl}
                local == q.image_url \in {LocalUrl, LocalMissingUrl}
            IN  /\ (i \in DOMAIN pre_scored) <=>
                       /\ content_type = "qbank"
                       /\ \/ local /\ q.image_url = LocalMissingUrl
                          \/ q.image_url = NoUrl /\ q.question_ref
                /\ (i \in DOMAIN pre_scored) <=> ~(\E k \in DOMAIN valid_indices :
                                                      valid_indices[k] = i)
                /\ remote => i \notin DOMAIN pre_scored

C22_Witness ==
    /\ ReportReturned
    /\ content_type = "qbank"
    /\ Len(items) = 2
    /\ items[1].image_url = RemoteDeadUrl
    /\ items[1].question_ref
    /\ items[2].image_url = LocalMissingUrl
    /\ DOMAIN pre_scored = {2}
    /\ valid_indices = <<1>>

(***************************************************************************)
(* C23.  validate_image_with_claude returns (it has no raising outcome) a  *)
(* dict with a score in 0..MAX_IMAGE_SCORE and a reason; when the download *)
(* raises or answers with another status than 200 the score is 0 and the   *)
(* vision model was not called.                                            *)
(***************************************************************************)
C23_AlwaysScored ==
    val_pc = "returned" =>
        /\ validation.t = "dict"
        /\ validation.has_score
        /\ validation.score \in 0..MAX_IMAGE_SCORE
        /\ validation.has_reason
        /\ val_download # "ok" => (validation = ScoreZero /\ ~vision_called)

(***************************************************************************)
(* C24.  As claimed: every item of a report, structural failures           *)
(* included, has quality_score = (validator_score + (10 -                  *)
(* adversarial_score)) / 2 in its overall_assessment.                      *)
(***************************************************************************)
C24_FormulaOnEveryItem ==
    ReportReturned =>
        \A i \in 1..Len(response.items) :
            LET oa == response.items[i].overall_assessment
            IN  2 * oa.quality_score = 100 * (oa.validator_score + (10 - oa.adversarial_score))

(***************************************************************************)
(* C24, amended.  Every item of a report that is not a structural failure  *)
(* has quality_score = (validator_score + (10 - adversarial_score)) / 2;   *)
(* a structural failure carries the fixed quality_score 1.0 next to        *)
(* validator_score 2 and adversarial_score 0.                              *)
(***************************************************************************)
C24_FormulaOnReviewedItems ==
    ReportReturned =>
        \A i \in 1..Len(response.items) :
            LET oa == response.items[i].overall_assessment
            IN  IF response.items[i].structural_failure
                THEN /\ oa.quality_score = 100
                     /\ oa.validator_score = 2
                     /\ oa.adversarial_score = 0
                ELSE 2 * oa.quality_score
                         = 100 * (oa.validator_score + (10 - oa.adversarial_score))

C24_Witness ==
    /\ ReportReturned
    /\ Len(response.items) = 2
    /\ response.items[1].structural_failure
    /\ ~response.items[2].structural_failure
    /\ response.items[2].overall_assessment.validator_score = 9
    /\ response.items[2].overall_assessment.adversarial_score = 1
    /\ response.items[2].overall_assessment.quality_score = 900

(***************************************************************************)
(* Vocabulary of the selection property.                                   *)
(***************************************************************************)
\* the scoring loop ran to its end
ScoringDone == img_pc = "select" \/ (Resolved /\ Scored)

ScoreCalls == Cardinality({i \in DOMAIN events : events[i] = "score"})

\* scored_candidates holds the first n candidates, in discovered order
ScoredInOrder(n) ==
    /\ Len(scored_candidates) = n
    /\ \A k \in 1..n : /\ scored_candidates[k].url = candidates[k].url
                       /\ scored_candidates[k].title = candidates[k].title

Reorderings(n) == {p \in [1..n -> 1..n] : \A i, j \in 1..n : p[i] = p[j] => i = j}

Reordered(scored, p) == [k \in 1..Len(scored) |-> scored[p[k]]]

HighestScore(scored) ==
    CHOOSE m \in {scored[k].score : k \in DOMAIN scored} :
        \A k \in DOMAIN scored : scored[k].score <= m

(***************************************************************************)
(* C25.  As claimed: every collected candidate is scored exactly once, in  *)
(* discovered order; the best candidate's score is at least every other    *)
(* score; and the same candidate is selected for every reordering of the   *)
(* candidate list, also when scores tie.                                   *)
(***************************************************************************)
C25_SelectionOrderIndependent ==
    (ScoringDone \/ img_pc = "raised") =>
        /\ ScoredInOrder(Len(candidates))
        /\ ScoreCalls = Len(candidates)
        /\ \A k \in DOMAIN scored_candidates : scored_candidates[k].score <= Best.score
        /\ \A p \in Reorderings(Len(scored_candidates)) :
            BestCandidate(Reordered(scored_candidates, p)).url = Best.url

(***************************************************************************)
(* C25, amended.  The candidates are scored in discovered order, each at   *)
(* most once: all of them exactly once when the scoring loop runs to its   *)
(* end, and a prefix of them when a validation without score or reason     *)
(* raises out of the call.  The selected candidate is the first, in list   *)
(* order, of those with the highest score: its score is the same for every *)
(* reordering of the list, and so is the candidate when the highest score  *)
(* is held by one candidate only.                                          *)
(***************************************************************************)
C25_FirstOfHighest ==
    /\ ScoringDone =>
        /\ ScoredInOrder(Len(candidates))
        /\ ScoreCalls = Len(candidates)
        /\ \A k \in DOMAIN scored_candidates : scored_candidates[k].score <= Best.score
        /\ \A p \in Reorderings(Len(scored_candidates)) :
            LET again == Reordered(scored_candidates, p)
                first == CHOOSE k \in DOMAIN again :
                            /\ again[k].score = HighestScore(again)
                            /\ \A j \in 1..(k - 1) : again[j].score < HighestScore(again)
            IN  /\ BestCandidate(again) = again[first]
                /\ BestCandidate(again).score = Best.score
                /\ Cardinality({k \in DOMAIN scored_candidates :
                                   scored_candidates[k].score = Best.score}) = 1
                       => BestCandidate(again) = Best
    /\ img_pc = "raised" =>
        /\ Len(scored_candidates) < Len(candidates)
        /\ ScoredInOrder(Len(scored_candidates))
        /\ ScoreCalls = Len(scored_candidates) + 1

C25_Witness ==
    /\ ScoringDone
    /\ Len(scored_candidates) = 2
    /\ scored_candidates[1].score = ACCEPT_SCORE
    /\ scored_candidates[2].score = ACCEPT_SCORE
    /\ Best = scored_candidates[1]
    /\ BestCandidate(Reordered(scored_candidates, <<2, 1>>)) = scored_candidates[2]
    /\ Resolved
    /\ result.title = scored_candidates[1].title

(***************************************************************************)
(* Vocabulary of the slot properties.                                      *)
(***************************************************************************)
SlotsOf(role) == IF role = "validator" THEN v_slots ELSE a_slots

\* slot position p (1-based) lies in the range [b_start, b_end) of batch n
InBatchRange(n, p) == batch_specs[n].b_start < p /\ p <= batch_specs[n].b_end

(***************************************************************************)
(* C26.  The ranges of different batches are disjoint, and in every step   *)
(* a validator or adversarial slot changes only from unwritten (None) to   *)
(* written, and only at a position inside the range of a batch whose       *)
(* future for that pass completes in this step: no slot is written twice   *)
(* and no result overwrites that of another batch or pass, whatever the    *)
(* order of completion.                                                    *)
(***************************************************************************)
C26_SlotsWrittenOnceInRange ==
    /\ [](\A m, n \in DOMAIN batch_specs :
            m < n => batch_specs[m].b_end <= batch_specs[n].b_start)
    /\ [][\A role \in Roles :
            \A p \in DOMAIN SlotsOf(role) :
                LET after == IF role = "validator" THEN v_slots'[p] ELSE a_slots'[p]
                IN  after # SlotsOf(role)[p] =>
                        /\ SlotsOf(role)[p] = None
                        /\ \E n \in DOMAIN futures :
                            /\ futures[n][role].state = "pending"
                            /\ futures'[n][role].state = "returned"
                            /\ InBatchRange(n, p)]_vars

\* both passes of two batches wrote all their slots, out of submission order
C26_Witness ==
    /\ pc = "running"
    /\ out_of_order
    /\ Len(batch_specs) = 2
    /\ \A n \in 1..2 : \A role \in Roles : futures[n][role].state = "returned"
    /\ \A role \in Roles : \A p \in DOMAIN SlotsOf(role) : SlotsOf(role)[p] # None
    /\ Len(v_slots) = 3

(***************************************************************************)
(* C27.  A returned batch pass of size c whose extractor gave k elements   *)
(* fills the first min(k, c) slots of its range with them in order (an     *)
(* element that is not a dict as an empty dict) and leaves the other       *)
(* slots of its range unwritten, which the result list reads as empty      *)
(* dicts; with k > c the elements after the c-th are dropped, and a slot   *)
(* of a batch whose pass has not returned stays unwritten.                 *)
(***************************************************************************)
C27_CountMismatch ==
    pc \in {"running", "done"} =>
        \A role \in Roles :
            \A p \in DOMAIN SlotsOf(role) :
                LET n == BatchOf(p)
                    fut == futures[n][role]
                    j == p - batch_specs[n].b_start
                    k == Len(fut.extracted)
                IN  /\ InBatchRange(n, p)
                    /\ IF fut.state = "returned" /\ j <= k
                       THEN /\ SlotsOf(role)[p] =
                                IF isinstance_dict(fut.extracted[j])
                                THEN fut.extracted[j] ELSE EmptyDict
                            /\ SlotsOf(role)[p] # None
                       ELSE /\ SlotsOf(role)[p] = None
                            /\ SlotResults(SlotsOf(role))[p] = EmptyDict

\* one pass returned fewer verdicts than its batch holds, another one more,
\* while a later batch is still pending
C27_Witness ==
    /\ pc = "running"
    /\ Len(batch_specs) = 2
    /\ batch_specs[1].batch_count = 2
    /\ futures[1]["validator"].state = "returned"
    /\ Len(futures[1]["validator"].extracted) = 1
    /\ v_slots[1] # None /\ v_slots[2] = None
    /\ futures[1]["adversarial"].state = "returned"
    /\ Len(futures[1]["adversarial"].extracted) = 3
    /\ a_slots[2] # None /\ a_slots[3] = None
    /\ futures[2]["adversarial"].state = "pending"

(***************************************************************************)
(* C28.  As claimed: a resolution that found nothing in the cache, got no  *)
(* candidate and generated an image, for a question with a spatial keyword *)
(* and an image description, sends the generated image to annotation       *)
(* before the cache write; when the markers are drawn, the marked          *)
(* descriptor is what is cached and returned.                              *)
(***************************************************************************)
C28_NoCandidatesAnnotated ==
    (/\ Resolved
     /\ candidates = <<>>
     /\ Occurs("generated")
     /\ WantsMarkers(question_data)
     /\ question_data.question = "spatial")
        => /\ Occurs("annotate")
           /\ Before("annotate", "cache_write")
           /\ Occurs("marked") => /\ result = Marked(GeneratedImage)
                                  /\ CachedNow = result

(***************************************************************************)
(* Vocabulary of the lesson properties.                                    *)
(***************************************************************************)
LessonReturned == lesson_pc = "returned"

AllWorkersDone == \A w \in DOMAIN workers : workers[w].pc = "done"

\* the cache key of the resolution of figure w
KeyOf(w) == get_cache_key(FigureTerms(lesson_figures[w].description), FigureImageType)

Searchable(seg) ==
    seg.kind = "placeholder" /\ ~vague(seg.description) /\ specific(seg.description)

\* where the placeholder of figure w stood in the text that was passed
FigurePos(w) ==
    CHOOSE p \in DOMAIN original_content :
        /\ Searchable(original_content[p])
        /\ Cardinality({q \in 1..p : Searchable(original_content[q])}) = w

(***************************************************************************)
(* C29.  As claimed: once the figure workers of a lesson have all          *)
(* finished, the cache holds the key of every worker that completed        *)
(* cache_image, and every entry that was in the cache at the start under   *)
(* another key is there unchanged -- in any interleaving of the workers.   *)
(***************************************************************************)
C29_CacheWritesKept ==
    (lesson_pc \in {"collecting", "returned"} /\ AllWorkersDone) =>
        /\ \A w \in DOMAIN workers : workers[w].wrote => KeyOf(w) \in DOMAIN cache_file
        /\ \A k \in DOMAIN cache_at_start :
            (\A w \in DOMAIN workers : workers[w].wrote => KeyOf(w) # k)
                => k \in DOMAIN cache_file /\ cache_file[k] = cache_at_start[k]

(***************************************************************************)
(* C30.  As claimed: the returned text has, for every searchable figure    *)
(* whose resolution returned an image, the markdown of that image where    *)
(* the figure's placeholder stood, and for every figure whose resolution   *)
(* returned None or raised, the placeholder as it was; every other segment *)
(* is unchanged -- whatever the order in which the workers finished.       *)
(***************************************************************************)
C30_EachFigureItsOwnImage ==
    LessonReturned =>
        /\ Len(lesson_content) = Len(original_content)
        /\ \A w \in DOMAIN lesson_figures :
            LET figure == lesson_figures[w]
                found == workers[w].result
            IN  lesson_content[FigurePos(w)] =
                    IF ImageTruthy(found)
                    THEN Markdown(figure.figure_num, figure.description, found.url)
                    ELSE original_content[FigurePos(w)]
        /\ \A p \in DOMAIN original_content :
            ~Searchable(original_content[p]) => lesson_content[p] = original_content[p]

\* the figures whose placeholder is the string seg and whose resolution
\* returned an image
FoundFor(seg) ==
    {w \in DOMAIN lesson_figures :
        lesson_figures[w].full_placeholder = seg /\ ImageTruthy(workers[w].result)}

(***************************************************************************)
(* C30, amended.  The returned text depends on the workers' results only,  *)
(* read in the order of the figures.  A searchable placeholder is replaced *)
(* by the markdown of the image of the first figure, in text order, that   *)
(* has this same placeholder string and whose resolution returned an       *)
(* image, and is kept when no figure with this string got an image: a      *)
(* placeholder whose string occurs once gets its own figure's image or is  *)
(* kept, while figures sharing one string all show the first image found   *)
(* among them.  Every other segment is unchanged.                          *)
(***************************************************************************)
C30_FirstImageOfSamePlaceholder ==
    LessonReturned =>
        /\ Len(lesson_content) = Len(original_content)
        /\ \A p \in DOMAIN original_content :
            LET seg == original_content[p]
            IN  IF Searchable(seg) /\ FoundFor(seg) # {}
                THEN LET w == Lowest(FoundFor(seg))
                     IN  lesson_content[p] =
                            Markdown(lesson_figures[w].figure_num,
                                     lesson_figures[w].description,
                                     workers[w].result.url)
                ELSE lesson_content[p] = seg
        /\ \A w \in DOMAIN lesson_figures :
            (\A v \in DOMAIN lesson_figures :
                lesson_figures[v].full_placeholder = lesson_figures[w].full_placeholder
                    => v = w)
                => lesson_content[FigurePos(w)] =
                    IF ImageTruthy(workers[w].result)
                    THEN Markdown(lesson_figures[w].figure_num,
                                  lesson_figures[w].description, workers[w].result.url)
                    ELSE original_content[FigurePos(w)]

\* three figures: the first raised, the second has the same placeholder and got
\* an image, the third has a placeholder of its own and got none
C30_Witness ==
    /\ LessonReturned
    /\ Len(workers) = 3
    /\ workers[1].raised
    /\ lesson_figures[2].full_placeholder = lesson_figures[1].full_placeholder
    /\ ImageTruthy(workers[2].result)
    /\ lesson_figures[3].full_placeholder # lesson_figures[1].full_placeholder
    /\ ~ImageTruthy(workers[3].result) /\ ~workers[3].raised
    /\ lesson_content[1].kind = "markdown"
    /\ lesson_content[2] = lesson_content[1]
    /\ lesson_content[3] = original_content[3]

====
